---------------------------- MODULE Spec2Model ----------------------------
(***************************************************************************)
(* A model of parcel (cdillond/parcel): the command line tool that fetches *)
(* a parcel tracking page, scrapes it with an HTML tokenizer (Parse) and   *)
(* normalises the date texts it finds (ParseUpdateDateTime,                *)
(* ParseDeliveryDate, ParseEstimatedDelivery).                             *)
(*                                                                         *)
(* Texts are sequences of one-character strings, so that splitting,        *)
(* stripping, parsing and formatting are computed character by character   *)
(* as the Go code computes them.                                            *)
(***************************************************************************)
EXTENDS Integers, Sequences, FiniteSets, TLC

VARIABLES
    now,        \* time.Now(): wall clock in Local, [year, month, day, hour, min, sec]
    Local,      \* time.Local: the zone of the system, [name, std, dst, rule]
    TZ,         \* var TZ (parcel.go:49): the zone the texts are read in
    \* ---- Parse (parcel.go:155-229)
    doc,        \* the tokens the tokenizer will yield from r, in order
    termErr,    \* tokenizer.Err() once the tokens are exhausted: "EOF" or another error
    pos,        \* number of tokens read so far with tokenizer.Next()
    res,        \* var res Result
    tmp,        \* tmp struct {Date, Time, Location, Status}
    i,          \* var i int
    ppc,        \* position in Parse: "loop", "after", "returned"
    ret,        \* what Parse returned: [res, err]
    last,       \* the last pass through the loop: [at, kind], at = index of its token
    \* ---- the date functions called on their own
    dfn, dDate, dTime, dOut, dpc,
    \* ---- SanitizeInput called on its own
    sIn, sOut, spc,
    \* ---- ValidateCarrier called on its own
    cIn, cOut, cpc,
    \* ---- main (parcel.go:66-153)
    mpc, flags, num, carrier, net, parseCalls, mres, perr, fs, out, log, exit

dateVars == <<dfn, dDate, dTime, dOut, dpc>>
parseVars == <<doc, termErr, pos, res, tmp, i, ppc, ret, last>>
sanVars == <<sIn, sOut, spc>>
carVars == <<cIn, cOut, cpc>>
mainVars == <<mpc, flags, num, carrier, net, parseCalls, mres, perr, fs, out, log, exit>>
vars == <<now, Local, TZ, parseVars, dateVars, sanVars, carVars, mainVars>>

-----------------------------------------------------------------------------
(* Characters and texts                                                    *)

DigitChars == <<"0", "1", "2", "3", "4", "5", "6", "7", "8", "9">>
UpperChars == <<"A", "B", "C", "D", "E", "F", "G", "H", "I", "J", "K", "L", "M",
                "N", "O", "P", "Q", "R", "S", "T", "U", "V", "W", "X", "Y", "Z">>
LowerChars == <<"a", "b", "c", "d", "e", "f", "g", "h", "i", "j", "k", "l", "m",
                "n", "o", "p", "q", "r", "s", "t", "u", "v", "w", "x", "y", "z">>

Range(s) == {s[k] : k \in 1..Len(s)}

isDigit(c) == c \in Range(DigitChars)
DigitVal(c) == CHOOSE d \in 0..9 : DigitChars[d + 1] = c
IsUpper(c) == c \in Range(UpperChars)
IsLower(c) == c \in Range(LowerChars)
ToLowerChar(c) ==
    IF IsUpper(c) THEN LowerChars[CHOOSE k \in 1..26 : UpperChars[k] = c] ELSE c
ToUpperChar(c) ==
    IF IsLower(c) THEN UpperChars[CHOOSE k \in 1..26 : LowerChars[k] = c] ELSE c

Drop(s, n) == IF n >= Len(s) THEN <<>> ELSE SubSeq(s, n + 1, Len(s))
Take(s, n) == IF n >= Len(s) THEN s ELSE SubSeq(s, 1, n)
HasPrefix(s, p) == Len(s) >= Len(p) /\ Take(s, Len(p)) = p

\* strconv.Itoa for n >= 0
RECURSIVE Itoa(_)
Itoa(n) == IF n < 10 THEN <<DigitChars[n + 1]>>
           ELSE Itoa(n \div 10) \o <<DigitChars[(n % 10) + 1]>>

\* time.appendInt(b, n, width) for n >= 0: zero padded to width
RECURSIVE appendInt(_, _)
appendInt(n, width) ==
    LET d == Itoa(n)
    IN IF Len(d) >= width THEN d ELSE <<"0">> \o appendInt(n, width - 1)

-----------------------------------------------------------------------------
(* The time package as the date functions use it: time.ParseInLocation for *)
(* the five layouts of parcel.go, Time.AddDate, Time.Before and            *)
(* Time.Format(time.RFC3339).  A layout is given as the chunks             *)
(* time.nextStdChunk cuts it into: a literal prefix and a standard element.*)

shortMonthNames ==
    << <<"J","a","n">>, <<"F","e","b">>, <<"M","a","r">>, <<"A","p","r">>,
       <<"M","a","y">>, <<"J","u","n">>, <<"J","u","l">>, <<"A","u","g">>,
       <<"S","e","p">>, <<"O","c","t">>, <<"N","o","v">>, <<"D","e","c">> >>
longMonthNames ==
    << <<"J","a","n","u","a","r","y">>, <<"F","e","b","r","u","a","r","y">>,
       <<"M","a","r","c","h">>, <<"A","p","r","i","l">>, <<"M","a","y">>,
       <<"J","u","n","e">>, <<"J","u","l","y">>, <<"A","u","g","u","s","t">>,
       <<"S","e","p","t","e","m","b","e","r">>, <<"O","c","t","o","b","e","r">>,
       <<"N","o","v","e","m","b","e","r">>, <<"D","e","c","e","m","b","e","r">> >>
shortDayNames ==
    << <<"S","u","n">>, <<"M","o","n">>, <<"T","u","e">>, <<"W","e","d">>,
       <<"T","h","u">>, <<"F","r","i">>, <<"S","a","t">> >>
longDayNames ==
    << <<"S","u","n","d","a","y">>, <<"M","o","n","d","a","y">>,
       <<"T","u","e","s","d","a","y">>, <<"W","e","d","n","e","s","d","a","y">>,
       <<"T","h","u","r","s","d","a","y">>, <<"F","r","i","d","a","y">>,
       <<"S","a","t","u","r","d","a","y">> >>

Sp == <<" ">>
CommaSp == <<",", " ">>
Colon == <<":">>

\* "Jan 2 3:04 PM 2006" (parcel.go:265)
LayoutUpdate ==
    << [prefix |-> <<>>, std |-> "stdMonth"], [prefix |-> Sp, std |-> "stdDay"],
       [prefix |-> Sp, std |-> "stdHour12"], [prefix |-> Colon, std |-> "stdZeroMinute"],
       [prefix |-> Sp, std |-> "stdPM"], [prefix |-> Sp, std |-> "stdLongYear"],
       [prefix |-> <<>>, std |-> "end"] >>
\* "Jan 2, 2006 3:04 PM" (parcel.go:268)
LayoutUpdateYear ==
    << [prefix |-> <<>>, std |-> "stdMonth"], [prefix |-> Sp, std |-> "stdDay"],
       [prefix |-> CommaSp, std |-> "stdLongYear"], [prefix |-> Sp, std |-> "stdHour12"],
       [prefix |-> Colon, std |-> "stdZeroMinute"], [prefix |-> Sp, std |-> "stdPM"],
       [prefix |-> <<>>, std |-> "end"] >>
\* "Monday, January 2, 2006" (parcel.go:284)
LayoutEstimated ==
    << [prefix |-> <<>>, std |-> "stdLongWeekDay"], [prefix |-> CommaSp, std |-> "stdLongMonth"],
       [prefix |-> Sp, std |-> "stdDay"], [prefix |-> CommaSp, std |-> "stdLongYear"],
       [prefix |-> <<>>, std |-> "end"] >>
\* "Mon, Jan 02, 3:04 PM 2006" (parcel.go:296)
LayoutDelivery ==
    << [prefix |-> <<>>, std |-> "stdWeekDay"], [prefix |-> CommaSp, std |-> "stdMonth"],
       [prefix |-> Sp, std |-> "stdZeroDay"], [prefix |-> CommaSp, std |-> "stdHour12"],
       [prefix |-> Colon, std |-> "stdZeroMinute"], [prefix |-> Sp, std |-> "stdPM"],
       [prefix |-> Sp, std |-> "stdLongYear"], [prefix |-> <<>>, std |-> "end"] >>
\* "Mon, Jan 02, 2006, 3:04 PM" (parcel.go:299)
LayoutDeliveryYear ==
    << [prefix |-> <<>>, std |-> "stdWeekDay"], [prefix |-> CommaSp, std |-> "stdMonth"],
       [prefix |-> Sp, std |-> "stdZeroDay"], [prefix |-> CommaSp, std |-> "stdLongYear"],
       [prefix |-> CommaSp, std |-> "stdHour12"], [prefix |-> Colon, std |-> "stdZeroMinute"],
       [prefix |-> Sp, std |-> "stdPM"], [prefix |-> <<>>, std |-> "end"] >>

\* time.cutspace: drop the leading spaces
RECURSIVE cutspace(_)
cutspace(s) == IF Len(s) > 0 /\ s[1] = " " THEN cutspace(Tail(s)) ELSE s

\* time.skip(value, prefix): a space of the prefix matches any run of spaces
\* of the value (also none at the end of the value), another character itself
RECURSIVE skip(_, _)
skip(value, prefix) ==
    IF Len(prefix) = 0 THEN [ok |-> TRUE, rest |-> value]
    ELSE IF prefix[1] = " "
         THEN IF Len(value) > 0 /\ value[1] # " "
              THEN [ok |-> FALSE, rest |-> value]
              ELSE skip(cutspace(value), cutspace(prefix))
         ELSE IF Len(value) = 0 \/ value[1] # prefix[1]
              THEN [ok |-> FALSE, rest |-> value]
              ELSE skip(Tail(value), Tail(prefix))

\* time.match: equal up to the case of ASCII letters
match(s1, s2) ==
    \A k \in 1..Len(s1) :
        \/ s1[k] = s2[k]
        \/ /\ ToLowerChar(s1[k]) = ToLowerChar(s2[k])
           /\ IsLower(ToLowerChar(s1[k]))

\* time.lookup(tab, val): the first name of tab that val starts with
lookup(tab, val) ==
    LET hits == {k \in 1..Len(tab) :
                    Len(val) >= Len(tab[k]) /\ match(Take(val, Len(tab[k])), tab[k])}
    IN IF hits = {} THEN [ok |-> FALSE, n |-> 0, rest |-> val]
       ELSE LET k == CHOOSE h \in hits : \A g \in hits : h <= g
            IN [ok |-> TRUE, n |-> k, rest |-> Drop(val, Len(tab[k]))]

\* time.getnum(s, fixed): one or two digits, exactly two when fixed
getnum(s, fixed) ==
    IF Len(s) = 0 \/ ~isDigit(s[1]) THEN [ok |-> FALSE, n |-> 0, rest |-> s]
    ELSE IF Len(s) < 2 \/ ~isDigit(s[2])
         THEN IF fixed THEN [ok |-> FALSE, n |-> 0, rest |-> s]
              ELSE [ok |-> TRUE, n |-> DigitVal(s[1]), rest |-> Tail(s)]
         ELSE [ok |-> TRUE, n |-> DigitVal(s[1]) * 10 + DigitVal(s[2]), rest |-> Drop(s, 2)]

\* the stdLongYear case of time.Parse: four characters, all digits
getyear(s) ==
    IF Len(s) < 4 \/ \E k \in 1..4 : ~isDigit(s[k])
    THEN [ok |-> FALSE, n |-> 0, rest |-> s]
    ELSE [ok |-> TRUE,
          n |-> DigitVal(s[1]) * 1000 + DigitVal(s[2]) * 100 + DigitVal(s[3]) * 10 + DigitVal(s[4]),
          rest |-> Drop(s, 4)]

isLeap(year) == year % 4 = 0 /\ (year % 100 # 0 \/ year % 400 = 0)

daysIn(month, year) ==
    IF month = 2 THEN (IF isLeap(year) THEN 29 ELSE 28)
    ELSE IF month \in {4, 6, 9, 11} THEN 30 ELSE 31

NoTime == [year |-> 0, month |-> 0, day |-> 0, hour |-> 0, min |-> 0, off |-> 0]

\* One standard element of the layout read from the front of the value v
\* (the switch of time.parse): [ok, rest, acc], acc the fields read so far
parseStd(std, v, acc) ==
    LET bad == [ok |-> FALSE, rest |-> v, acc |-> acc]
        digits == getnum(v, std \in {"stdZeroDay", "stdZeroMinute"})
        name == lookup(CASE std = "stdMonth" -> shortMonthNames
                         [] std = "stdLongMonth" -> longMonthNames
                         [] std = "stdWeekDay" -> shortDayNames
                         [] OTHER -> longDayNames, v)
        yr == getyear(v)
    IN CASE std \in {"stdMonth", "stdLongMonth"} ->
              IF ~name.ok THEN bad
              ELSE [ok |-> TRUE, rest |-> name.rest, acc |-> [acc EXCEPT !.month = name.n]]
         [] std \in {"stdWeekDay", "stdLongWeekDay"} ->
              IF ~name.ok THEN bad ELSE [ok |-> TRUE, rest |-> name.rest, acc |-> acc]
         [] std \in {"stdDay", "stdZeroDay"} ->
              IF ~digits.ok THEN bad
              ELSE [ok |-> TRUE, rest |-> digits.rest, acc |-> [acc EXCEPT !.day = digits.n]]
         [] std = "stdHour12" ->
              IF ~digits.ok \/ digits.n > 12 THEN bad
              ELSE [ok |-> TRUE, rest |-> digits.rest, acc |-> [acc EXCEPT !.hour = digits.n]]
         [] std = "stdZeroMinute" ->
              IF ~digits.ok \/ digits.n >= 60 THEN bad
              ELSE [ok |-> TRUE, rest |-> digits.rest, acc |-> [acc EXCEPT !.min = digits.n]]
         [] std = "stdPM" ->
              IF Len(v) < 2 THEN bad
              ELSE IF Take(v, 2) = <<"P", "M">>
                   THEN [ok |-> TRUE, rest |-> Drop(v, 2), acc |-> [acc EXCEPT !.pmSet = TRUE]]
                   ELSE IF Take(v, 2) = <<"A", "M">>
                        THEN [ok |-> TRUE, rest |-> Drop(v, 2), acc |-> [acc EXCEPT !.amSet = TRUE]]
                        ELSE bad
         [] std = "stdLongYear" ->
              IF ~yr.ok THEN bad
              ELSE [ok |-> TRUE, rest |-> yr.rest, acc |-> [acc EXCEPT !.year = yr.n]]

\* The loop of time.parse over the chunks of the layout: skip the literal
\* prefix, then read the element; at the end no text may be left
RECURSIVE parseChunks(_, _, _)
parseChunks(chunks, value, acc) ==
    LET c == Head(chunks)
        sk == skip(value, c.prefix)
        r == parseStd(c.std, sk.rest, acc)
    IN IF ~sk.ok THEN [ok |-> FALSE, acc |-> acc]
       ELSE IF c.std = "end" THEN [ok |-> Len(sk.rest) = 0, acc |-> acc]
       ELSE IF ~r.ok THEN [ok |-> FALSE, acc |-> acc]
       ELSE parseChunks(Tail(chunks), r.rest, r.acc)

\* days from 1970-01-01 to the first day of a year from 1970 to 2099
daysSinceEpoch(year) == 365 * (year - 1970) + ((year - 1969) \div 4)

\* days from the first day of a year to the first day of one of its months
daysBefore == <<0, 31, 59, 90, 120, 151, 181, 212, 243, 273, 304, 334>>

\* Time.Unix(): the seconds from 1970-01-01T00:00:00Z to the wall clock
\* reading t with sec seconds, at the offset of off minutes
unixSec(t, sec, off) ==
    LET days == daysSinceEpoch(t.year) + daysBefore[t.month]
                + (IF isLeap(t.year) /\ t.month > 2 THEN 1 ELSE 0) + (t.day - 1)
    IN (((days * 24 + t.hour) * 60) + t.min - off) * 60 + sec

\* Zones of the tz database: the name, the offsets of standard and of
\* daylight saving time in minutes, and the rule of the transitions: "US"
\* (second Sunday of March 02:00 to first Sunday of November 02:00, local
\* time), "EU" (last Sunday of March to last Sunday of October, 01:00 UTC),
\* "none"
UTC == [name |-> "UTC", std |-> 0, dst |-> 0, rule |-> "none"]
NewYork == [name |-> "America/New_York", std |-> -300, dst |-> -240, rule |-> "US"]
Kolkata == [name |-> "Asia/Kolkata", std |-> 330, dst |-> 330, rule |-> "none"]
Paris == [name |-> "Europe/Paris", std |-> 60, dst |-> 120, rule |-> "EU"]

\* the day of the week of a date, 0 for Sunday (1970-01-01 was a Thursday)
weekday(year, month, day) ==
    (unixSec([year |-> year, month |-> month, day |-> day, hour |-> 0, min |-> 0], 0, 0)
        \div 86400 + 4) % 7

\* the Sunday among the seven days of a month that begin with the day from
sundayFrom(year, month, from) == CHOOSE d \in from..(from + 6) : weekday(year, month, d) = 0

\* the instants at which daylight saving time begins and ends in a year
dstStart(z, year) ==
    IF z.rule = "US"
    THEN unixSec([year |-> year, month |-> 3, day |-> sundayFrom(year, 3, 8),
                  hour |-> 2, min |-> 0], 0, z.std)
    ELSE unixSec([year |-> year, month |-> 3, day |-> sundayFrom(year, 3, 25),
                  hour |-> 1, min |-> 0], 0, 0)
dstEnd(z, year) ==
    IF z.rule = "US"
    THEN unixSec([year |-> year, month |-> 11, day |-> sundayFrom(year, 11, 1),
                  hour |-> 2, min |-> 0], 0, z.dst)
    ELSE unixSec([year |-> year, month |-> 10, day |-> sundayFrom(year, 10, 25),
                  hour |-> 1, min |-> 0], 0, 0)

\* Location.lookup: the offset in use in the zone z at the instant u, an
\* instant of the year given or of a day before or after it
zoneLookup(z, u, year) ==
    IF z.rule = "none" THEN z.std
    ELSE IF \E y \in (year - 1)..(year + 1) : dstStart(z, y) <= u /\ u < dstEnd(z, y)
         THEN z.dst ELSE z.std

\* the offset time.Date settles on for the wall clock reading w in z: the
\* one in use at the instant the reading would be in UTC, and when the
\* reading taken at that offset lies beyond the transition, the one in use
\* there
dateOffset(z, w) ==
    LET wall == unixSec(w, 0, 0)
        guess == zoneLookup(z, wall, w.year)
    IN IF guess = 0 THEN 0 ELSE zoneLookup(z, wall - guess * 60, w.year)

\* the wall clock reading delta minutes after w (before it when negative),
\* for less than a day
shiftMinutes(w, delta) ==
    LET m == w.hour * 60 + w.min + delta
        back == IF w.day > 1 THEN [w EXCEPT !.day = @ - 1]
                ELSE IF w.month > 1
                     THEN [w EXCEPT !.month = @ - 1, !.day = daysIn(w.month - 1, w.year)]
                     ELSE [w EXCEPT !.year = @ - 1, !.month = 12, !.day = 31]
        forth == IF w.day < daysIn(w.month, w.year) THEN [w EXCEPT !.day = @ + 1]
                 ELSE IF w.month < 12 THEN [w EXCEPT !.month = @ + 1, !.day = 1]
                      ELSE [w EXCEPT !.year = @ + 1, !.month = 1, !.day = 1]
    IN IF m < 0 THEN [back EXCEPT !.hour = (m + 1440) \div 60, !.min = (m + 1440) % 60]
       ELSE IF m >= 1440
            THEN [forth EXCEPT !.hour = (m - 1440) \div 60, !.min = (m - 1440) % 60]
            ELSE [w EXCEPT !.hour = m \div 60, !.min = m % 60]

\* time.Date(year, month, day, hour, min, 0, 0, z) for a date that exists:
\* the time with its wall clock reading and offset in z.  A reading that the
\* zone skips (the hour after the clocks go forward) comes out an hour off
Date(z, w) ==
    LET off == dateOffset(z, w)
        real == zoneLookup(z, unixSec(w, 0, off), w.year)
    IN [shiftMinutes(w, real - off) EXCEPT !.off = real]

\* The end of time.parse: the 12-hour clock is turned into hours of the
\* day, the day of the month is validated, and the time is built in TZ
parsedTime(p) ==
    LET a == p.acc
        hour == IF a.pmSet /\ a.hour < 12 THEN a.hour + 12
                ELSE IF a.amSet /\ a.hour = 12 THEN 0 ELSE a.hour
        month == IF a.month < 0 THEN 1 ELSE a.month
        day == IF a.day < 0 THEN 1 ELSE a.day
    IN IF ~p.ok THEN [ok |-> FALSE, t |-> NoTime]
       ELSE IF day < 1 \/ day > daysIn(month, a.year) THEN [ok |-> FALSE, t |-> NoTime]
       ELSE [ok |-> TRUE,
             t |-> Date(TZ, [year |-> a.year, month |-> month, day |-> day,
                             hour |-> hour, min |-> a.min, off |-> 0])]

\* time.ParseInLocation(layout, value, TZ): [ok, t]; t is the time read,
\* [year, month, day, hour, min, off]: its wall clock reading and offset
ParseInLocation(layout, value) ==
    parsedTime(parseChunks(layout, value,
                   [year |-> 0, month |-> -1, day |-> -1, hour |-> 0, min |-> 0,
                    pmSet |-> FALSE, amSet |-> FALSE]))

\* t.AddDate(years, 0, 0) of a time of TZ: time.Date normalises a day past
\* the end of the month into the next month
AddDate(t, years) ==
    LET y == t.year + years
        n == daysIn(t.month, y)
    IN Date(TZ, IF t.day <= n THEN [t EXCEPT !.year = y]
                ELSE IF t.month = 12
                     THEN [t EXCEPT !.year = y + 1, !.month = 1, !.day = t.day - n]
                     ELSE [t EXCEPT !.year = y, !.month = t.month + 1, !.day = t.day - n])

\* n.Before(t) for the clock reading n (with seconds, in Local) and a time t
\* (whole minutes): the instants are compared
Before(n, t) == unixSec(n, n.sec, dateOffset(Local, n)) < unixSec(t, 0, t.off)

\* t.Format(time.RFC3339)
FormatRFC3339(t) ==
    LET off == IF t.off < 0 THEN -t.off ELSE t.off
        zone == IF t.off = 0 THEN <<"Z">>
                ELSE <<IF t.off < 0 THEN "-" ELSE "+">> \o appendInt(off \div 60, 2)
                     \o <<":">> \o appendInt(off % 60, 2)
    IN appendInt(t.year, 4) \o <<"-">> \o appendInt(t.month, 2) \o <<"-">>
       \o appendInt(t.day, 2) \o <<"T">> \o appendInt(t.hour, 2) \o <<":">>
       \o appendInt(t.min, 2) \o <<":", "0", "0">> \o zone

-----------------------------------------------------------------------------
(* The date functions of parcel.go                                         *)

Midnight == <<"1", "2", ":", "0", "0", " ", "A", "M">>

\* InferYear that keeps the current year also for a time after now
InferYear_NoRollback(t) == t

\* parcel.go:275-280 and 306-310: a time read without its year is moved a
\* year back when it is after now
InferYear(t) == IF Before(now, t) THEN AddDate(t, -1) ELSE t

\* updateDateTime whose fallback joins the two texts with a space
updateDateTime_SpaceJoined(p1, p2, date, updateTime) ==
    IF ~p1.ok
    THEN IF ~p2.ok THEN date \o Sp \o updateTime
         ELSE FormatRFC3339(p2.t)
    ELSE FormatRFC3339(InferYear(p1.t))

\* parcel.go:265-280, given the results p1, p2 of the two ParseInLocation
\* calls (p2 is used only when p1 failed)
updateDateTime(p1, p2, date, updateTime) ==
    IF ~p1.ok
    THEN IF ~p2.ok THEN date \o CommaSp \o updateTime
         ELSE FormatRFC3339(p2.t)
    ELSE FormatRFC3339(InferYear(p1.t))

\* parcel.go:262-264
defaultTime(updateTime) == IF updateTime = <<>> THEN Midnight ELSE updateTime

ParseUpdateDateTime(date, updateTime) ==
    updateDateTime(
        ParseInLocation(LayoutUpdate,
                        date \o Sp \o defaultTime(updateTime) \o Sp \o Itoa(now.year)),
        ParseInLocation(LayoutUpdateYear, date \o Sp \o defaultTime(updateTime)),
        date, defaultTime(updateTime))

\* estimatedDelivery that moves a date after now a year back
estimatedDelivery_Inferred(p, date) ==
    IF ~p.ok THEN date ELSE FormatRFC3339(InferYear(p.t))

\* parcel.go:285-288, given the result p of ParseInLocation
estimatedDelivery(p, date) == IF ~p.ok THEN date ELSE FormatRFC3339(p.t)

ParseEstimatedDelivery(date) ==
    estimatedDelivery(ParseInLocation(LayoutEstimated, date), date)

\* parcel.go:296-310, given the results p1, p2 of the two ParseInLocation calls
deliveryDate(p1, p2, date) ==
    IF ~p1.ok
    THEN IF ~p2.ok THEN date ELSE FormatRFC3339(p2.t)
    ELSE FormatRFC3339(InferYear(p1.t))

ParseDeliveryDate(date) ==
    deliveryDate(ParseInLocation(LayoutDelivery, date \o Sp \o Itoa(now.year)),
                 ParseInLocation(LayoutDeliveryYear, date), date)

-----------------------------------------------------------------------------
(* Parse (parcel.go:155-229) over the tokens of golang.org/x/net/html      *)

\* A token as Parse sees it: its type, TagName() (lower case), the
\* attributes in the order TagAttr() yields them, and Text().
Tok(type, name, attr, text) == [type |-> type, name |-> name, attr |-> attr, text |-> text]
ErrorToken == Tok("Error", "", <<>>, <<>>)
TextTok(t) == Tok("Text", "", <<>>, t)
TdStart == Tok("StartTag", "td", <<>>, <<>>)
TdEnd == Tok("EndTag", "td", <<>>, <<>>)
TrStart == Tok("StartTag", "tr", <<>>, <<>>)
MarkerAttr == [key |-> "class", val |-> "b_focusTextSmall"]
MarkerDiv == Tok("StartTag", "div", <<MarkerAttr>>, <<>>)
\* a div whose class attribute is not its first attribute
LateClassDiv == Tok("StartTag", "div", <<[key |-> "id", val |-> "d1"], MarkerAttr>>, <<>>)
PlainDiv == Tok("StartTag", "div", <<>>, <<>>)

\* *new(Result)
ZeroResult ==
    [TrackingNum |-> <<>>, Carrier |-> <<>>, Delivered |-> FALSE,
     DeliveryDateTime |-> <<>>, Updates |-> <<>>]
ZeroTmp == [Date |-> <<>>, Time |-> <<>>, Location |-> <<>>, Status |-> <<>>]

\* tokenizer.Next() after p tokens were read: the next token, or ErrorToken
\* once the input is exhausted (or its read failed)
tokenizerNext(d, p) == IF p < Len(d) THEN d[p + 1] ELSE ErrorToken

\* bytes.Split(s, sep) for a non-empty sep: cut at each occurrence of sep,
\* found from the left without overlap
RECURSIVE Split(_, _)
Split(s, sep) ==
    LET at == {k \in 1..(Len(s) - Len(sep) + 1) : SubSeq(s, k, k + Len(sep) - 1) = sep}
    IN IF at = {} THEN <<s>>
       ELSE LET k == CHOOSE h \in at : \A g \in at : h <= g
            IN <<Take(s, k - 1)>> \o Split(Drop(s, k + Len(sep) - 1), sep)

DeliveredLabel == <<"D", "e", "l", "i", "v", "e", "r", "e", "d">>

\* DeliveryBlock with the label compared without regard to case
DeliveryBlock_FoldCase(r, innerText) ==
    LET b == Split(innerText, <<":", " ">>)
    IN IF Len(b) # 2 THEN r
       ELSE LET delivered == [k \in 1..Len(b[1]) |-> ToLowerChar(b[1][k])]
                             = [k \in 1..Len(DeliveredLabel) |-> ToLowerChar(DeliveredLabel[k])]
            IN [r EXCEPT !.Delivered = delivered,
                         !.DeliveryDateTime = IF delivered THEN ParseDeliveryDate(b[2])
                                              ELSE ParseEstimatedDelivery(b[2])]

\* DeliveryBlock that keeps the first well-formed block
DeliveryBlock_FirstWins(r, innerText) ==
    LET b == Split(innerText, <<":", " ">>)
    IN IF Len(b) # 2 \/ r.Delivered \/ r.DeliveryDateTime # <<>> THEN r
       ELSE LET delivered == b[1] = DeliveredLabel
            IN [r EXCEPT !.Delivered = delivered,
                         !.DeliveryDateTime = IF delivered THEN ParseDeliveryDate(b[2])
                                              ELSE ParseEstimatedDelivery(b[2])]

\* DeliveryBlock that assigns Delivered before it checks the number of parts
DeliveryBlock_AssignFirst(r, innerText) ==
    LET b == Split(innerText, <<":", " ">>)
        delivered == b[1] = DeliveredLabel
    IN IF Len(b) # 2 THEN [r EXCEPT !.Delivered = delivered]
       ELSE [r EXCEPT !.Delivered = delivered,
                      !.DeliveryDateTime = IF delivered THEN ParseDeliveryDate(b[2])
                                           ELSE ParseEstimatedDelivery(b[2])]

\* parcel.go:178-188: the text that follows a marker div
DeliveryBlock(r, innerText) ==
    LET b == Split(innerText, <<":", " ">>)
    IN IF Len(b) # 2 THEN r
       ELSE LET delivered == b[1] = DeliveredLabel
            IN [r EXCEPT !.Delivered = delivered,
                         !.DeliveryDateTime = IF delivered THEN ParseDeliveryDate(b[2])
                                              ELSE ParseEstimatedDelivery(b[2])]

\* readme.md:47: the number of elements the updates array is said not to exceed
UpdatesCap == 5

\* UpdateCell with the cases 2 and 3 of the switch exchanged
UpdateCell_SwappedRoles(st, innerText) ==
    LET k == st.i % 4
        t == CASE k = 0 -> [st.tmp EXCEPT !.Date = innerText]
               [] k = 1 -> [st.tmp EXCEPT !.Time = innerText]
               [] k = 2 -> [st.tmp EXCEPT !.Status = innerText]
               [] k = 3 -> [st.tmp EXCEPT !.Location = innerText]
        u == [DateTime |-> ParseUpdateDateTime(t.Date, t.Time),
              Location |-> t.Location, Status |-> t.Status]
    IN [st EXCEPT !.tmp = t,
                  !.res.Updates = IF k = 3 THEN Append(@, u) ELSE @,
                  !.i = @ + 1]

\* UpdateCell whose switch has no case for the location
UpdateCell_NoLocationCase(st, innerText) ==
    LET k == st.i % 4
        t == CASE k = 0 -> [st.tmp EXCEPT !.Date = innerText]
               [] k = 1 -> [st.tmp EXCEPT !.Time = innerText]
               [] k = 2 -> st.tmp
               [] k = 3 -> [st.tmp EXCEPT !.Status = innerText]
        u == [DateTime |-> ParseUpdateDateTime(t.Date, t.Time),
              Location |-> t.Location, Status |-> t.Status]
    IN [st EXCEPT !.tmp = t,
                  !.res.Updates = IF k = 3 THEN Append(@, u) ELSE @,
                  !.i = @ + 1]

\* UpdateCell that stops appending at UpdatesCap updates
UpdateCell_Capped(st, innerText) ==
    LET k == st.i % 4
        t == CASE k = 0 -> [st.tmp EXCEPT !.Date = innerText]
               [] k = 1 -> [st.tmp EXCEPT !.Time = innerText]
               [] k = 2 -> [st.tmp EXCEPT !.Location = innerText]
               [] k = 3 -> [st.tmp EXCEPT !.Status = innerText]
        u == [DateTime |-> ParseUpdateDateTime(t.Date, t.Time),
              Location |-> t.Location, Status |-> t.Status]
    IN [st EXCEPT !.tmp = t,
                  !.res.Updates = IF k = 3 /\ Len(@) < UpdatesCap THEN Append(@, u) ELSE @,
                  !.i = @ + 1]

\* parcel.go:202-218: the text that follows a td start tag
UpdateCell(st, innerText) ==
    LET k == st.i % 4
        t == CASE k = 0 -> [st.tmp EXCEPT !.Date = innerText]
               [] k = 1 -> [st.tmp EXCEPT !.Time = innerText]
               [] k = 2 -> [st.tmp EXCEPT !.Location = innerText]
               [] k = 3 -> [st.tmp EXCEPT !.Status = innerText]
        u == [DateTime |-> ParseUpdateDateTime(t.Date, t.Time),
              Location |-> t.Location, Status |-> t.Status]
    IN [st EXCEPT !.tmp = t,
                  !.res.Updates = IF k = 3 THEN Append(@, u) ELSE @,
                  !.i = @ + 1]

\* parcel.go:170: is this start tag handled by the div branch
IsDivWithAttr(t) == t.type = "StartTag" /\ t.name = "div" /\ Len(t.attr) > 0
\* parcel.go:171-172: the first attribute is the marker class
HasMarker(t) == t.attr[1] = MarkerAttr
\* parcel.go:196
IsTd(t) == t.type = "StartTag" /\ t.name = "td"

\* Iterate that leaves a token after a td or marker div start tag to the
\* main loop when it is no text
Iterate_PeekOnly(d, st) ==
    LET t == tokenizerNext(d, st.pos)
        p1 == st.pos + 1
        inner == tokenizerNext(d, p1)
    IN IF t.type = "Error" THEN [st EXCEPT !.done = TRUE]
       ELSE IF t.type # "StartTag" THEN [st EXCEPT !.pos = p1]
       ELSE IF IsDivWithAttr(t) /\ HasMarker(t) /\ inner.type = "Text"
            THEN [st EXCEPT !.pos = p1 + 1, !.res = DeliveryBlock(st.res, inner.text)]
       ELSE IF IsTd(t) /\ inner.type = "Text"
            THEN [UpdateCell(st, inner.text) EXCEPT !.pos = p1 + 1]
       ELSE [st EXCEPT !.pos = p1]

\* One pass through the body of the for loop of Parse (parcel.go:163-222),
\* the tokenizer.Next() of the loop header included.  st.done: the loop was left.
Iterate(d, st) ==
    LET t == tokenizerNext(d, st.pos)
        p1 == st.pos + 1
        inner == tokenizerNext(d, p1)
    IN IF t.type = "Error" THEN [st EXCEPT !.done = TRUE]
       ELSE IF t.type # "StartTag" THEN [st EXCEPT !.pos = p1]
       ELSE IF IsDivWithAttr(t)
            THEN IF HasMarker(t)
                 THEN IF inner.type = "Error" THEN [st EXCEPT !.pos = p1, !.done = TRUE]
                      ELSE IF inner.type = "Text"
                           THEN [st EXCEPT !.pos = p1 + 1,
                                           !.res = DeliveryBlock(st.res, inner.text)]
                           ELSE [st EXCEPT !.pos = p1 + 1]
                 ELSE [st EXCEPT !.pos = p1]
       ELSE IF IsTd(t)
            THEN IF inner.type = "Error" THEN [st EXCEPT !.pos = p1, !.done = TRUE]
                 ELSE IF inner.type = "Text"
                      THEN [UpdateCell(st, inner.text) EXCEPT !.pos = p1 + 1]
                      ELSE [st EXCEPT !.pos = p1 + 1]
       ELSE [st EXCEPT !.pos = p1]

\* ParseReturn that hands back what was collected together with the error
ParseReturn_Partial(r, err) ==
    IF err # "EOF" THEN [res |-> r, err |-> err]
    ELSE [res |-> r, err |-> "nil"]

\* parcel.go:223-228: what Parse returns once the loop is left
ParseReturn(r, err) ==
    IF err # "EOF" THEN [res |-> ZeroResult, err |-> err]
    ELSE [res |-> r, err |-> "nil"]

ParseStart == [pos |-> 0, res |-> ZeroResult, tmp |-> ZeroTmp, i |-> 0, done |-> FALSE]

\* Parse(r) as a function of the tokens r yields and of the error that ends them
RECURSIVE ParseLoop(_, _)
ParseLoop(d, st) == IF st.done THEN st ELSE ParseLoop(d, Iterate(d, st))

Parse(d, err) == ParseReturn(ParseLoop(d, ParseStart).res, err)

-----------------------------------------------------------------------------
(* SanitizeInput and ValidateCarrier (parcel.go:231-258)                   *)

\* the bounds of parcel.go:232
MinNumLen == 7
MaxNumLen == 40

\* a character of two bytes in UTF-8; every other character of the model
\* is ASCII
WideChar == "é"

\* U+017F, the long s, written by its code point: a lower-case letter
\* outside ASCII, of two bytes, whose upper case (unicode.ToUpper) is the
\* ASCII letter S
LongS == "U+017F"

\* the upper case of WideChar, of two bytes as well
WideUpper == "É"

\* the number of bytes of a character in a Go string
utf8Len(c) == IF c \in {WideChar, WideUpper, LongS} THEN 2 ELSE 1

\* len(s) of a Go string: its number of bytes
RECURSIVE ByteLen(_)
ByteLen(s) == IF s = <<>> THEN 0 ELSE utf8Len(s[1]) + ByteLen(Drop(s, 1))

\* parcel.go:237-239: the characters SanitizeInput keeps
IsAlnum(c) == isDigit(c) \/ IsLower(c) \/ IsUpper(c)

\* parcel.go:231-244: the length test is on s as given, before the loop
\* that strips it
SanitizeInput(s) ==
    IF ByteLen(s) < MinNumLen \/ ByteLen(s) > MaxNumLen
    THEN [s |-> <<>>, err |-> "ErrNum"]
    ELSE [s |-> SelectSeq(s, IsAlnum), err |-> "nil"]

\* unicode.ToUpper on the characters of the model
unicodeToUpper(c) ==
    IF c = LongS THEN "S" ELSE IF c = WideChar THEN WideUpper ELSE ToUpperChar(c)

\* strings.ToUpper on the texts of the model
ToUpper(s) == [k \in 1..Len(s) |-> unicodeToUpper(s[k])]

DHL == <<"D", "H", "L">>
FEDEX == <<"F", "E", "D", "E", "X">>
UPS == <<"U", "P", "S">>
USPS == <<"U", "S", "P", "S">>

\* ValidateCarrier that compares the text as typed
ValidateCarrier_ExactCase(s) ==
    IF s \in {DHL, FEDEX, UPS, USPS}
    THEN [c |-> s, err |-> "nil"]
    ELSE [c |-> <<>>, err |-> "ErrCarrier"]

\* parcel.go:246-258
ValidateCarrier(s) ==
    LET u == ToUpper(s)
    IN IF u \in {DHL, FEDEX, UPS, USPS}
       THEN [c |-> u, err |-> "nil"]
       ELSE [c |-> <<>>, err |-> "ErrCarrier"]

-----------------------------------------------------------------------------
(* The texts and clocks the date functions are called with                 *)

Clock(y, mo, d, h, mi, sec) ==
    [year |-> y, month |-> mo, day |-> d, hour |-> h, min |-> mi, sec |-> sec]

\* readings of time.Now(): before and on Feb 29 of a leap year, at and just
\* after a minute that the texts name, the last second of a year, a common
\* year, the first half hour of a year, a day after the clocks of that year
\* have gone forward and back
Nows ==
    { Clock(2024, 1, 15, 10, 0, 0), Clock(2024, 2, 29, 14, 51, 0),
      Clock(2024, 2, 29, 14, 51, 30), Clock(2024, 3, 1, 0, 0, 0),
      Clock(2023, 9, 19, 14, 50, 59), Clock(2025, 12, 31, 23, 59, 59),
      Clock(2023, 2, 28, 12, 0, 0), Clock(2024, 1, 1, 0, 30, 0),
      Clock(2024, 12, 1, 8, 0, 0) }

\* the zones the system and TZ are drawn from
Zones == {UTC, NewYork, Kolkata, Paris}

AM == <<"A", "M">>
PM == <<"P", "M">>
Hour24(h12, pm) == IF pm THEN (IF h12 = 12 THEN 12 ELSE h12 + 12)
                   ELSE (IF h12 = 12 THEN 0 ELSE h12)
ClockText(h12, mi, pm) ==
    Itoa(h12) \o Colon \o appendInt(mi, 2) \o Sp \o (IF pm THEN PM ELSE AM)

\* a date cell "Sep 19" and what it says
MonthDay(mo, d) ==
    [text |-> shortMonthNames[mo] \o Sp \o Itoa(d), kind |-> "md",
     year |-> 0, month |-> mo, day |-> d, hour |-> 0, min |-> 0]
\* the same in lower case: "sep 19"
MonthDayLower(mo, d) ==
    [MonthDay(mo, d) EXCEPT
        !.text = [k \in 1..Len(MonthDay(mo, d).text) |-> ToLowerChar(MonthDay(mo, d).text[k])]]
\* a date cell with its year: "Sep 19, 2023"
MonthDayYear(mo, d, y) ==
    [text |-> shortMonthNames[mo] \o Sp \o Itoa(d) \o CommaSp \o Itoa(y), kind |-> "mdy",
     year |-> y, month |-> mo, day |-> d, hour |-> 0, min |-> 0]
\* a time cell "2:51 PM" and what it says
TimeOfDay(h12, mi, pm) ==
    [text |-> ClockText(h12, mi, pm), kind |-> "hm",
     year |-> 0, month |-> 0, day |-> 0, hour |-> Hour24(h12, pm), min |-> mi]
\* a text no layout reads
Junk(t) == [text |-> t, kind |-> "junk",
            year |-> 0, month |-> 0, day |-> 0, hour |-> 0, min |-> 0]
EmptyText == [text |-> <<>>, kind |-> "empty",
              year |-> 0, month |-> 0, day |-> 0, hour |-> 0, min |-> 0]
\* a delivery date "Mon, Sep 18, 2:30 PM"
DeliveryText(wd, mo, d, h12, mi, pm) ==
    [text |-> shortDayNames[wd] \o CommaSp \o shortMonthNames[mo] \o Sp \o appendInt(d, 2)
              \o CommaSp \o ClockText(h12, mi, pm),
     kind |-> "dlv", year |-> 0, month |-> mo, day |-> d,
     hour |-> Hour24(h12, pm), min |-> mi]
\* a delivery date with its year "Mon, Sep 18, 2023, 2:30 PM"
DeliveryTextYear(wd, mo, d, y, h12, mi, pm) ==
    [text |-> shortDayNames[wd] \o CommaSp \o shortMonthNames[mo] \o Sp \o appendInt(d, 2)
              \o CommaSp \o Itoa(y) \o CommaSp \o ClockText(h12, mi, pm),
     kind |-> "dlvy", year |-> y, month |-> mo, day |-> d,
     hour |-> Hour24(h12, pm), min |-> mi]
\* an estimated delivery "Monday, January 2, 2025"
EstimatedText(wd, mo, d, y) ==
    [text |-> longDayNames[wd] \o CommaSp \o longMonthNames[mo] \o Sp \o Itoa(d)
              \o CommaSp \o Itoa(y),
     kind |-> "est", year |-> y, month |-> mo, day |-> d, hour |-> 0, min |-> 0]

TxtNA == <<"N", "/", "A">>
TxtSept19 == <<"S", "e", "p", "t", " ", "1", "9">>
Txt19Sep == <<"1", "9", " ", "S", "e", "p">>
TxtNoon == <<"n", "o", "o", "n">>
Txt13PM == <<"1", "3", ":", "0", "0", " ", "P", "M">>
Txt2_5PM == <<"2", ":", "5", " ", "P", "M">>
TxtPending == <<"P", "e", "n", "d", "i", "n", "g">>
TxtShortDay == <<"M", "o", "n", ",", " ", "S", "e", "p", " ", "8", ",", " ", "2", ":", "3", "0", " ", "P", "M">>
TxtShortWeekday == <<"M", "o", "n", ",", " ", "J", "a", "n", "u", "a", "r", "y", " ", "2", ",", " ", "2", "0", "2", "5">>

UpdateDates ==
    {MonthDay(mo, d) : mo \in {1, 2, 3, 9, 12}, d \in {1, 19, 28, 29, 30, 31}}
    \cup {MonthDayLower(9, 19)}
    \* days on which the clocks go forward (New York 2024 and 2023, Paris 2023;
    \* Mar 31 is the day of Paris in 2024) or back (New York, Paris 2024)
    \cup {MonthDay(3, 10), MonthDay(3, 12), MonthDay(3, 26), MonthDay(11, 3), MonthDay(10, 27)}
    \cup {MonthDayYear(9, 19, 2023), MonthDayYear(2, 29, 2024), MonthDayYear(2, 29, 2023)}
    \cup {Junk(TxtNA), Junk(TxtSept19), Junk(Txt19Sep)}
UpdateTimes ==
    {TimeOfDay(2, 51, TRUE), TimeOfDay(12, 0, FALSE), TimeOfDay(12, 30, TRUE),
     TimeOfDay(11, 59, TRUE), TimeOfDay(2, 30, FALSE), TimeOfDay(1, 30, FALSE)}
    \cup {EmptyText, Junk(TxtNoon), Junk(Txt13PM), Junk(Txt2_5PM)}
DeliveryDates ==
    {DeliveryText(wd, mo, d, 2, 30, TRUE) : wd \in {2, 5}, mo \in {2, 9, 12}, d \in {1, 18, 29, 31}}
    \cup {DeliveryText(5, 2, 29, 12, 0, FALSE), DeliveryText(1, 2, 29, 2, 51, TRUE)}
    \cup {DeliveryText(1, 3, 10, 2, 30, FALSE), DeliveryText(1, 3, 12, 2, 30, FALSE)}
    \cup {DeliveryTextYear(2, 9, 18, 2023, 2, 30, TRUE), DeliveryTextYear(5, 2, 29, 2024, 9, 5, FALSE)}
    \cup {Junk(TxtPending), Junk(TxtShortDay), Junk(<<>>)}
EstimatedDates ==
    {EstimatedText(wd, mo, d, y) : wd \in {2, 7}, mo \in {1, 2, 7, 12}, d \in {2, 29, 31},
                                   y \in {2023, 2024, 2025}}
    \cup {Junk(TxtPending), Junk(TxtShortWeekday), Junk(<<>>)}

DateCalls ==
    {[fn |-> "ParseUpdateDateTime", date |-> d, time |-> t] : d \in UpdateDates, t \in UpdateTimes}
    \cup {[fn |-> "ParseDeliveryDate", date |-> d, time |-> EmptyText] : d \in DeliveryDates}
    \cup {[fn |-> "ParseEstimatedDelivery", date |-> d, time |-> EmptyText] : d \in EstimatedDates}

-----------------------------------------------------------------------------
(* Initial values of the parts a specification does not run                *)

IdleClock == now = Clock(2024, 1, 15, 10, 0, 0) /\ Local = UTC /\ TZ = UTC
IdleParse ==
    /\ doc = <<>> /\ termErr = "EOF" /\ pos = 0 /\ res = ZeroResult /\ tmp = ZeroTmp
    /\ i = 0 /\ ppc = "idle" /\ ret = [res |-> ZeroResult, err |-> "nil"]
    /\ last = [at |-> 0, kind |-> "none"]
IdleDate ==
    /\ dfn = "none" /\ dDate = EmptyText /\ dTime = EmptyText /\ dOut = <<>> /\ dpc = "idle"
IdleSan == sIn = <<>> /\ sOut = [s |-> <<>>, err |-> "nil"] /\ spc = "idle"
IdleCar == cIn = <<>> /\ cOut = [c |-> <<>>, err |-> "nil"] /\ cpc = "idle"
IdleMain ==
    /\ mpc = "idle" /\ flags = <<>> /\ num = <<>> /\ carrier = <<>> /\ net = <<>>
    /\ parseCalls = 0 /\ mres = ZeroResult /\ perr = "nil" /\ fs = <<>> /\ out = <<>> /\ log = <<>>
    /\ exit = -1

-----------------------------------------------------------------------------
(* SpecDate: one call of a date function on a text, at a clock reading     *)

InitDate ==
    /\ now \in Nows /\ Local \in Zones /\ TZ \in Zones
    /\ \E c \in DateCalls : dfn = c.fn /\ dDate = c.date /\ dTime = c.time
    /\ dOut = <<>> /\ dpc = "call"
    /\ IdleParse /\ IdleSan /\ IdleCar /\ IdleMain

CallParseUpdateDateTime ==
    /\ dpc = "call" /\ dfn = "ParseUpdateDateTime"
    /\ dOut' = ParseUpdateDateTime(dDate.text, dTime.text)
    /\ dpc' = "done"
    /\ UNCHANGED <<now, Local, TZ, dfn, dDate, dTime, parseVars, sanVars, carVars, mainVars>>

CallParseDeliveryDate ==
    /\ dpc = "call" /\ dfn = "ParseDeliveryDate"
    /\ dOut' = ParseDeliveryDate(dDate.text)
    /\ dpc' = "done"
    /\ UNCHANGED <<now, Local, TZ, dfn, dDate, dTime, parseVars, sanVars, carVars, mainVars>>

CallParseEstimatedDelivery ==
    /\ dpc = "call" /\ dfn = "ParseEstimatedDelivery"
    /\ dOut' = ParseEstimatedDelivery(dDate.text)
    /\ dpc' = "done"
    /\ UNCHANGED <<now, Local, TZ, dfn, dDate, dTime, parseVars, sanVars, carVars, mainVars>>

NextDate == CallParseUpdateDateTime \/ CallParseDeliveryDate \/ CallParseEstimatedDelivery

SpecDate == InitDate /\ [][NextDate]_vars

-----------------------------------------------------------------------------
(* SpecParse: Parse run pass by pass over a document                       *)

MaxTokens == 3    \* documents of any tokens: at most this many tokens
MaxCells == 9     \* documents of table cells: at most this many cells
MaxBlocks == 2    \* documents of delivery blocks: at most this many blocks
MaxRowCells == 25 \* documents of one long table: at most this many cells

TxtDeliveredColon == <<"D", "e", "l", "i", "v", "e", "r", "e", "d", ":", " ">>
TxtLowerDeliveredColon == <<"d", "e", "l", "i", "v", "e", "r", "e", "d", ":", " ">>
TxtEstimatedColon == <<"E", "s", "t", "i", "m", "a", "t", "e", "d", " ", "d", "e", "l", "i", "v", "e", "r", "y", ":", " ">>
TxtNY == <<"N", "Y">>
TxtInTransit == <<"I", "n", " ", "t", "r", "a", "n", "s", "i", "t">>

\* texts of delivery blocks: well formed with the three kinds of label, and
\* with two separators; a text without separator is TxtSep19
BlkDelivered == TxtDeliveredColon \o DeliveryText(2, 9, 18, 2, 30, TRUE).text
BlkLowerDelivered == TxtLowerDeliveredColon \o DeliveryText(2, 9, 18, 2, 30, TRUE).text
BlkEstimated == TxtEstimatedColon \o EstimatedText(2, 1, 2, 2025).text
BlkTwoSeps == TxtDeliveredColon \o TxtDeliveredColon \o TxtNA
TxtSep19 == MonthDay(9, 19).text
Txt251PM == TimeOfDay(2, 51, TRUE).text

BlockTexts == {BlkDelivered, BlkLowerDelivered, BlkEstimated, BlkTwoSeps, TxtSep19}
CellTexts == {TxtSep19, Txt251PM}
AnyTokens ==
    {TdStart, TdEnd, TrStart, MarkerDiv, LateClassDiv}
    \cup {TextTok(t) : t \in BlockTexts \cup CellTexts}

Cell(t) == <<TdStart, TextTok(t)>>
Block(t) == <<MarkerDiv, TextTok(t)>>

\* a cell without text: the tokenizer yields no text token for it
EmptyCell == <<TdStart, TdEnd>>

RECURSIVE Flatten(_)
Flatten(ss) == IF ss = <<>> THEN <<>> ELSE Head(ss) \o Flatten(Tail(ss))

\* the cells of a well-formed table: date, time, location, status in turn
RowText(k) == CASE k % 4 = 1 -> TxtSep19 [] k % 4 = 2 -> Txt251PM
                [] k % 4 = 3 -> TxtNY [] OTHER -> TxtInTransit
RowCells(from, to) == Flatten([k \in 1..(to - from + 1) |-> Cell(RowText(from + k - 1))])

\* what may stand between two cells of a table
Between ==
    { <<TdStart>>, <<MarkerDiv>>, <<PlainDiv>>, <<TdStart, TdEnd>>, <<TdStart, TrStart>>,
      <<LateClassDiv, TextTok(BlkDelivered)>>,
      Block(BlkEstimated), Block(BlkTwoSeps), Block(TxtSep19) }

Docs ==
    \* every sequence of at most MaxTokens tokens
    UNION {[1..n -> AnyTokens] : n \in 0..MaxTokens}
    \* tables of at most MaxCells cells, each with one of two texts
    \cup UNION {{Flatten([k \in 1..n |-> Cell(f[k])]) : f \in [1..n -> CellTexts]} : n \in 0..MaxCells}
    \* at most MaxBlocks delivery blocks
    \cup UNION {{Flatten([k \in 1..n |-> Block(f[k])]) : f \in [1..n -> BlockTexts]} : n \in 0..MaxBlocks}
    \* a delivery block, then a table with something between two of its cells
    \cup {Block(BlkDelivered) \o RowCells(1, k) \o x \o RowCells(k + 1, n) :
             n \in 0..MaxCells, k \in 0..MaxCells, x \in Between}
    \* a long table, whole rows and a part of one
    \cup {RowCells(1, n) : n \in 0..MaxRowCells}
    \* whole rows, the time cell of one of them without text: <td></td>
    \cup {RowCells(1, 4 * r + 1) \o EmptyCell \o RowCells(4 * r + 3, 4 * m) :
             m \in 1..(MaxCells \div 4), r \in 0..(MaxCells \div 4 - 1)}

\* tokenizer.Err() at the end of the tokens: io.EOF, or the error of the read
\* that failed (parcel.go:224: most likely a context error)
TermErrs == {"EOF", "context deadline exceeded"}

ParseNows == {Clock(2024, 1, 15, 10, 0, 0), Clock(2023, 9, 19, 14, 50, 59)}

InitParse ==
    /\ now \in ParseNows /\ Local = NewYork /\ TZ = NewYork
    /\ doc \in Docs /\ termErr \in TermErrs
    /\ pos = 0 /\ res = ZeroResult /\ tmp = ZeroTmp /\ i = 0 /\ ppc = "loop"
    /\ ret = [res |-> ZeroResult, err |-> "nil"]
    /\ last = [at |-> 0, kind |-> "none"]
    /\ IdleDate /\ IdleSan /\ IdleCar /\ IdleMain

\* the local state of Parse as Iterate takes it
ParseState == [pos |-> pos, res |-> res, tmp |-> tmp, i |-> i, done |-> FALSE]

\* the state after one pass through the loop, which left Parse in st;
\* the pass is recorded in last as kind
Passed(st, kind) ==
    /\ pos' = st.pos /\ res' = st.res /\ tmp' = st.tmp /\ i' = st.i
    /\ ppc' = IF st.done THEN "after" ELSE "loop"
    /\ last' = [at |-> pos + 1, kind |-> IF st.done /\ kind # "end" THEN "break" ELSE kind]
    /\ UNCHANGED <<now, Local, TZ, doc, termErr, ret, dateVars, sanVars, carVars, mainVars>>

Pass(kind) == Passed(Iterate(doc, ParseState), kind)

\* parcel.go:164-166: a token that is no start tag
SkipToken ==
    /\ ppc = "loop" /\ pos < Len(doc) /\ doc[pos + 1].type # "StartTag"
    /\ Pass("skip")

\* parcel.go:170-193: a div start tag with attributes
DivTag ==
    /\ ppc = "loop" /\ pos < Len(doc) /\ IsDivWithAttr(doc[pos + 1])
    /\ Pass(IF HasMarker(doc[pos + 1])
            THEN (IF tokenizerNext(doc, pos + 1).type = "Text" THEN "block" ELSE "div")
            ELSE "tag")

\* parcel.go:196-220: a td start tag
TdTag ==
    /\ ppc = "loop" /\ pos < Len(doc) /\ IsTd(doc[pos + 1])
    /\ Pass(IF tokenizerNext(doc, pos + 1).type = "Text" THEN "cell" ELSE "td")

\* any other start tag
OtherTag ==
    /\ ppc = "loop" /\ pos < Len(doc) /\ doc[pos + 1].type = "StartTag"
    /\ ~IsDivWithAttr(doc[pos + 1]) /\ ~IsTd(doc[pos + 1])
    /\ Pass("tag")

\* parcel.go:163: tokenizer.Next() yields ErrorToken
EndOfInput ==
    /\ ppc = "loop" /\ pos = Len(doc)
    /\ Pass("end")

\* parcel.go:223-228
Return ==
    /\ ppc = "after"
    /\ ret' = ParseReturn(res, termErr)
    /\ ppc' = "returned"
    /\ UNCHANGED <<now, Local, TZ, doc, termErr, pos, res, tmp, i, last, dateVars, sanVars, carVars, mainVars>>

NextParse == SkipToken \/ DivTag \/ TdTag \/ OtherTag \/ EndOfInput \/ Return

SpecParse == InitParse /\ [][NextParse]_vars

-----------------------------------------------------------------------------
(* SpecSanitize: one call of SanitizeInput on a tracking number            *)

MaxAlnum == 42
MaxOther == 8

\* the letters and digits the inputs are made of, in turn
AlnumCycle == <<"1", "Z", "9", "a", "0", "X", "b", "7">>

\* the separators the inputs are made of, in turn
OtherCycle == <<"-", " ", ".", "_">>

\* a tracking number as typed: other separators, then alnum letters and
\* digits, then wide times the two-byte character
SanInput(other, alnum, wide) ==
    [k \in 1..other |-> OtherCycle[((k - 1) % Len(OtherCycle)) + 1]]
    \o [k \in 1..alnum |-> AlnumCycle[((k - 1) % Len(AlnumCycle)) + 1]]
    \o [k \in 1..wide |-> WideChar]

\* the same with the separators between the letters and digits
SanInputMixed(alnum) ==
    [k \in 1..(2 * alnum) |->
        IF k % 2 = 1 THEN AlnumCycle[(((k + 1) \div 2 - 1) % Len(AlnumCycle)) + 1]
        ELSE OtherCycle[((k \div 2 - 1) % Len(OtherCycle)) + 1]]

SanInputs ==
    {SanInput(o, a, w) : o \in 0..MaxOther, a \in 0..MaxAlnum, w \in 0..1}
    \cup {SanInputMixed(a) : a \in 0..MaxAlnum}

InitSanitize ==
    /\ sIn \in SanInputs /\ sOut = [s |-> <<>>, err |-> "nil"] /\ spc = "call"
    /\ IdleClock /\ IdleParse /\ IdleDate /\ IdleCar /\ IdleMain

CallSanitizeInput ==
    /\ spc = "call"
    /\ sOut' = SanitizeInput(sIn)
    /\ spc' = "done"
    /\ UNCHANGED <<now, Local, TZ, parseVars, dateVars, sIn, carVars, mainVars>>

NextSanitize == CallSanitizeInput

SpecSanitize == InitSanitize /\ [][NextSanitize]_vars

-----------------------------------------------------------------------------
(* SpecCarrier: one call of ValidateCarrier on a carrier text              *)

\* the ways of writing a letter of a carrier code: upper case, lower case
\* and, for S, the long s
Spellings(c) == {c, ToLowerChar(c)} \cup (IF c = "S" THEN {LongS} ELSE {})

\* the ways of writing a carrier code
Variants(w) == {v \in [1..Len(w) -> UNION {Spellings(w[k]) : k \in 1..Len(w)}] :
                   \A k \in 1..Len(w) : v[k] \in Spellings(w[k])}

CarrierVariants == Variants(DHL) \cup Variants(FEDEX) \cup Variants(UPS) \cup Variants(USPS)

\* texts that are no carrier code: nothing, parts of codes, codes with
\* something added or between, another word
NoCarriers ==
    { <<>>, <<"U">>, <<"U", "P">>, <<"u", "s", "p">>, <<"D", "H">>,
      <<"U", "P", "S", "S">>, <<"U", ".", "P", ".", "S">>,
      <<"F", "E", "D", " ", "E", "X">>, <<"f", "e", "d", "e">>,
      <<"d", "h", "x">>, <<"U", "S", "P", "S", "U", "P", "S">>,
      <<"d", "h", "l", "\n">>, <<"\t", "u", "p", "s">>,
      <<"u", WideChar>>, <<"u", "p", "s", WideUpper>> }

CarInputs ==
    CarrierVariants
    \cup {Sp \o v : v \in CarrierVariants}
    \cup {v \o Sp : v \in CarrierVariants}
    \cup NoCarriers

InitCarrier ==
    /\ cIn \in CarInputs /\ cOut = [c |-> <<>>, err |-> "nil"] /\ cpc = "call"
    /\ IdleClock /\ IdleParse /\ IdleDate /\ IdleSan /\ IdleMain

CallValidateCarrier ==
    /\ cpc = "call"
    /\ cOut' = ValidateCarrier(cIn)
    /\ cpc' = "done"
    /\ UNCHANGED <<now, Local, TZ, parseVars, dateVars, sanVars, cIn, mainVars>>

NextCarrier == CallValidateCarrier

SpecCarrier == InitCarrier /\ [][NextCarrier]_vars

-----------------------------------------------------------------------------
(* SpecMain: a run of main (parcel.go:66-153) with its environment: the    *)
(* context of the request, the server and the output target.               *)
(*                                                                         *)
(* flags  the command line: [n, c, o, pretty, tz, g]                       *)
(* net    [ctx, firedAt, body, url]: ctx is "none", "live", "expired" or   *)
(*        "cancelled"; firedAt is the position of main at which the        *)
(*        deadline passed; body is the tokens of the response body; url    *)
(*        is the URL of the request once it is built                       *)
(* fs     the file named by -o: [pre, exists, content], pre = the file as  *)
(*        it was before the run                                            *)
(* mres   res of main (parcel.go:104), perr the error Parse returned        *)
(* out    what was written to standard output                              *)
(* exit   the exit status, -1 while main runs                              *)
(*                                                                         *)
(* json.Marshal (parcel.go:126-134) has no failing branch here: Result     *)
(* holds strings, a bool and a slice of structs of strings.                *)

StdoutName == "<stdout>"
ErrArgs == "too few arguments provided"
ErrDeadline == "context deadline exceeded"
ErrTransport == "dial tcp: connection refused"
ErrUnexpectedEOF == "unexpected EOF"
ErrZone == "unknown time zone"
ErrRequest == "net/url: invalid control character in URL"
ErrCreate == "open: permission denied"
ErrWrite == "write: no space left on device"
ErrClose == "close: input/output error"
NoUpdates == "tracking number updates not found"

\* time.LoadLocation: "" and "UTC" give UTC, "Local" gives time.Local, a
\* name of the tz database gives its zone (the model holds three of them),
\* and a name the database does not have is an error
LoadLocation(name) ==
    CASE name \in {"", "UTC"} -> [ok |-> TRUE, tz |-> UTC]
      [] name = "Local" -> [ok |-> TRUE, tz |-> Local]
      [] name = NewYork.name -> [ok |-> TRUE, tz |-> NewYork]
      [] name = Kolkata.name -> [ok |-> TRUE, tz |-> Kolkata]
      [] name = Paris.name -> [ok |-> TRUE, tz |-> Paris]
      [] OTHER -> [ok |-> FALSE, tz |-> UTC]

\* the bytes json.Marshal / json.MarshalIndent / gob give for a Result, kept as
\* the encoding and the value encoded
Encoded(enc, r) == [enc |-> enc, res |-> r]

\* what is left of data when a write stops early or fails: part is "all",
\* "some" or "none"
Written(data, part) == IF part = "none" THEN <<>> ELSE <<[data |-> data, part |-> part]>>

\* the errors that can end the reading of resp.Body when the connection
\* would end it with e (io.EOF at the end): e, and once the deadline of the
\* context has passed also the context's error; which of the two a read
\* returns then depends on whether it is served from what was received
bodyErr(ctx, e) == IF ctx = "expired" THEN {ErrDeadline, e} ELSE {e}

MainNums == {<<>>, SanInput(0, 18, 0), SanInput(2, 3, 0)}
MainCarriers == {<<>>, <<"u", "p", "s">>, <<"d", "h", "x">>}
MainZones == {"", "America/New_York", "Local", "Mars/Phobos"}
MainTargets == {StdoutName, "out.json"}
MainBodies == {<<>>, RowCells(1, 5), Block(BlkDelivered) \o RowCells(1, 8)}
OldFile == [exists |-> TRUE, content |-> Written(Encoded("earlier run", ZeroResult), "all")]
NoFile == [exists |-> FALSE, content |-> <<>>]

InitMain ==
    \* parcel.go:49: var TZ = time.Local
    /\ now = Clock(2024, 1, 15, 10, 0, 0) /\ Local = UTC /\ TZ = Local
    /\ flags \in [n : MainNums, c : MainCarriers, o : MainTargets,
                  pretty : BOOLEAN, tz : MainZones, g : BOOLEAN]
    /\ mpc = "args" /\ num = <<>> /\ carrier = <<>>
    /\ net \in [ctx : {"none"}, firedAt : {"never"}, body : MainBodies, url : {<<>>}]
    /\ parseCalls = 0 /\ mres = ZeroResult /\ perr = "nil"
    /\ \E pre \in {OldFile, NoFile} :
          fs = [pre |-> pre, exists |-> pre.exists, content |-> pre.content]
    /\ out = <<>> /\ log = <<>> /\ exit = -1
    /\ IdleParse /\ IdleDate /\ IdleSan /\ IdleCar

\* log.Fatalln(msg): the message, then os.Exit(1)
Fatal(msg) == log' = Append(log, msg) /\ exit' = 1 /\ mpc' = "exited"

\* parcel.go:67-72
CheckArgs ==
    /\ mpc = "args"
    /\ IF flags.n = <<>> \/ flags.c = <<>>
       THEN log' = log \o <<ErrArgs, "usage">> /\ exit' = 1 /\ mpc' = "exited"
       ELSE mpc' = "sanitize" /\ UNCHANGED <<log, exit>>
    /\ UNCHANGED <<now, Local, TZ, parseVars, dateVars, sanVars, carVars, flags, num, carrier, net,
                   parseCalls, mres, perr, fs, out>>

\* main that goes on to the carrier whatever SanitizeInput returned
Sanitize_NoAbort ==
    /\ mpc = "sanitize"
    /\ num' = SanitizeInput(flags.n).s
    /\ mpc' = "carrier"
    /\ UNCHANGED <<now, Local, TZ, parseVars, dateVars, sanVars, carVars, flags, carrier, net,
                   parseCalls, mres, perr, fs, out, log, exit>>

\* parcel.go:74-77
Sanitize ==
    /\ mpc = "sanitize"
    /\ LET r == SanitizeInput(flags.n)
       IN /\ num' = r.s
          /\ IF r.err # "nil" THEN Fatal(r.err)
             ELSE mpc' = "carrier" /\ UNCHANGED <<log, exit>>
    /\ UNCHANGED <<now, Local, TZ, parseVars, dateVars, sanVars, carVars, flags, carrier, net,
                   parseCalls, mres, perr, fs, out>>

\* parcel.go:78-81
Validate ==
    /\ mpc = "carrier"
    /\ LET r == ValidateCarrier(flags.c)
       IN /\ carrier' = r.c
          /\ IF r.err # "nil" THEN Fatal(r.err)
             ELSE mpc' = "tz" /\ UNCHANGED <<log, exit>>
    /\ UNCHANGED <<now, Local, TZ, parseVars, dateVars, sanVars, carVars, flags, num, net,
                   parseCalls, mres, perr, fs, out>>

\* parcel.go:83-88
LoadTZ ==
    /\ mpc = "tz"
    /\ IF flags.tz = ""
       THEN mpc' = "request" /\ UNCHANGED <<TZ, log, exit>>
       ELSE LET r == LoadLocation(flags.tz)
            IN IF r.ok
               THEN TZ' = r.tz /\ mpc' = "request" /\ UNCHANGED <<log, exit>>
               ELSE Fatal(ErrZone) /\ UNCHANGED TZ
    /\ UNCHANGED <<now, Local, parseVars, dateVars, sanVars, carVars, flags, num, carrier, net,
                   parseCalls, mres, perr, fs, out>>

\* the constant URL (parcel.go:43), cut at its two verbs
URLHead ==
    <<"h", "t", "t", "p", "s", ":", "/", "/", "w", "w", "w", ".", "b", "i", "n", "g", ".", "c", "o", "m", "/", "p", "a", "c", "k", "a", "g", "e", "t", "r", "a", "c", "k", "i", "n", "g", "v", "2", "?", "p", "a", "c", "k", "N", "u", "m", "=">>
URLCarrier == <<"&", "c", "a", "r", "r", "i", "e", "r", "=">>

\* fmt.Sprintf(URL, num, carrier)
requestURL(n, c) == URLHead \o n \o URLCarrier \o c

\* the ASCII control characters among the characters of the model
isCTL(c) == c \in {"\n", "\t"}

\* http.NewRequestWithContext with the method GET and a context: it fails
\* when url.Parse refuses the URL, as it does for one with a control character
newRequestErr(u) == \E k \in 1..Len(u) : isCTL(u[k])

\* parcel.go:90-96: the context with its deadline, and the request
NewRequest ==
    /\ mpc = "request"
    /\ IF newRequestErr(requestURL(num, carrier))
       THEN /\ net' = [net EXCEPT !.ctx = "cancelled"]
            /\ Fatal(ErrRequest)
       ELSE /\ net' = [net EXCEPT !.ctx = "live", !.url = requestURL(num, carrier)]
            /\ mpc' = "do"
            /\ UNCHANGED <<log, exit>>
    /\ UNCHANGED <<now, Local, TZ, parseVars, dateVars, sanVars, carVars, flags, num, carrier,
                   parseCalls, mres, perr, fs, out>>

\* the deadline of the context passes: at any time from its creation to
\* cancel() at parcel.go:106
Timeout ==
    /\ net.ctx = "live"
    /\ mpc \in {"do", "waiting", "parse", "parsing", "closing"}
    /\ net' = [net EXCEPT !.ctx = "expired", !.firedAt = mpc]
    /\ UNCHANGED <<now, Local, TZ, parseVars, dateVars, sanVars, carVars, mpc, flags, num, carrier,
                   parseCalls, mres, perr, fs, out, log, exit>>

\* parcel.go:98: http.DefaultClient.Do sends the request and waits
DoSend ==
    /\ mpc = "do"
    /\ mpc' = "waiting"
    /\ UNCHANGED <<now, Local, TZ, parseVars, dateVars, sanVars, carVars, flags, num, carrier, net,
                   parseCalls, mres, perr, fs, out, log, exit>>

\* Do can return something other than the error of the context: always
\* while the context is live, and, when the deadline passed while Do was
\* already waiting, if the outcome came at the same moment.  With a deadline
\* that passed before Do was called, Do returns the error of the context
DoCanReturn == net.ctx = "live" \/ (net.ctx = "expired" /\ net.firedAt = "waiting")

\* parcel.go:98: Do returns the response once its headers are read; the
\* body is read later, through resp.Body
HeadersArrive ==
    /\ mpc = "waiting" /\ DoCanReturn
    /\ mpc' = "parse"
    /\ UNCHANGED <<now, Local, TZ, parseVars, dateVars, sanVars, carVars, flags, num, carrier, net,
                   parseCalls, mres, perr, fs, out, log, exit>>

\* parcel.go:98-102: Do fails on the network, and cancel() is called
TransportError ==
    /\ mpc = "waiting" /\ DoCanReturn
    /\ net' = [net EXCEPT !.ctx = IF net.ctx = "live" THEN "cancelled" ELSE net.ctx]
    /\ Fatal(ErrTransport)
    /\ UNCHANGED <<now, Local, TZ, parseVars, dateVars, sanVars, carVars, flags, num, carrier,
                   parseCalls, mres, perr, fs, out>>

\* parcel.go:98-102: Do fails because the deadline passed before the headers
DoTimedOut ==
    /\ mpc = "waiting" /\ net.ctx = "expired"
    /\ Fatal(ErrDeadline)
    /\ UNCHANGED <<now, Local, TZ, parseVars, dateVars, sanVars, carVars, flags, num, carrier, net,
                   parseCalls, mres, perr, fs, out>>

\* parcel.go:104: Parse is called with the body
StartParse ==
    /\ mpc = "parse"
    /\ parseCalls' = parseCalls + 1
    /\ mpc' = "parsing"
    /\ UNCHANGED <<now, Local, TZ, parseVars, dateVars, sanVars, carVars, flags, num, carrier, net,
                   mres, perr, fs, out, log, exit>>

\* parcel.go:104: Parse reads the body to its end (io.EOF), or to the read
\* that fails after k tokens, and returns; main holds its result and error.
\* The deadline may have passed (Timeout) without a read having met it
ParseReturns ==
    /\ mpc = "parsing"
    /\ \E k \in 0..Len(net.body), e \in {"EOF", ErrUnexpectedEOF} :
          \E err \in bodyErr(net.ctx, e) :
              /\ err = "EOF" => k = Len(net.body)
              /\ mres' = Parse(Take(net.body, k), err).res
              /\ perr' = Parse(Take(net.body, k), err).err
    /\ mpc' = "closing"
    /\ UNCHANGED <<now, Local, TZ, parseVars, dateVars, sanVars, carVars, flags, num, carrier, net,
                   parseCalls, fs, out, log, exit>>

\* parcel.go:105-106: resp.Body.Close(), then cancel(); until cancel() the
\* deadline can still pass
CloseAndCancel ==
    /\ mpc = "closing"
    /\ net' = [net EXCEPT !.ctx = IF net.ctx = "live" THEN "cancelled" ELSE net.ctx]
    /\ mpc' = "checkerr"
    /\ UNCHANGED <<now, Local, TZ, parseVars, dateVars, sanVars, carVars, flags, num, carrier,
                   parseCalls, mres, perr, fs, out, log, exit>>

\* main that logs the error of Parse and goes on
CheckParseErr_ErrorNotFatal ==
    /\ mpc = "checkerr"
    /\ log' = IF perr # "nil" THEN Append(log, perr) ELSE log
    /\ mpc' = "fill"
    /\ UNCHANGED <<now, Local, TZ, parseVars, dateVars, sanVars, carVars, flags, num, carrier, net,
                   parseCalls, mres, perr, fs, out, exit>>

\* parcel.go:107-109: the error of Parse is fatal
CheckParseErr ==
    /\ mpc = "checkerr"
    /\ IF perr # "nil" THEN Fatal(perr)
       ELSE mpc' = "fill" /\ UNCHANGED <<log, exit>>
    /\ UNCHANGED <<now, Local, TZ, parseVars, dateVars, sanVars, carVars, flags, num, carrier, net,
                   parseCalls, mres, perr, fs, out>>

\* parcel.go:111-115
Fill ==
    /\ mpc = "fill"
    /\ mres' = [mres EXCEPT !.TrackingNum = num, !.Carrier = carrier]
    /\ log' = IF Len(mres.Updates) = 0 THEN Append(log, NoUpdates) ELSE log
    /\ mpc' = "outfile"
    /\ UNCHANGED <<now, Local, TZ, parseVars, dateVars, sanVars, carVars, flags, num, carrier, net,
                   parseCalls, perr, fs, out, exit>>

\* the encoding main writes: parcel.go:118 and 127-132
Encoding == IF flags.g THEN "gob" ELSE IF flags.pretty THEN "json-indent" ELSE "json"

\* OutFile (parcel.go:313-318), called at parcel.go:138 after the value is
\* marshalled and at part_001:8: os.Create makes the file, or empties the one
\* that is there
OpenOutFile ==
    /\ mpc = "outfile"
    /\ IF flags.o = StdoutName
       THEN mpc' = "write" /\ UNCHANGED <<fs, log, exit>>
       ELSE \E ok \in BOOLEAN :
               IF ok
               THEN /\ fs' = [fs EXCEPT !.exists = TRUE, !.content = <<>>]
                    /\ mpc' = "write" /\ UNCHANGED <<log, exit>>
               ELSE Fatal(ErrCreate) /\ UNCHANGED fs
    /\ UNCHANGED <<now, Local, TZ, parseVars, dateVars, sanVars, carVars, flags, num, carrier, net,
                   parseCalls, mres, perr, out>>

\* out.Write(b) (parcel.go:143-147) and enc.Encode(res) (part_001:12-17):
\* all of the bytes, or an error after none or some of them, and then Close
WriteOut ==
    /\ mpc = "write"
    /\ \E part \in {"all", "some", "none"} :
          /\ IF flags.o = StdoutName
             THEN out' = out \o Written(Encoded(Encoding, mres), part) /\ UNCHANGED fs
             ELSE /\ fs' = [fs EXCEPT !.content = @ \o Written(Encoded(Encoding, mres), part)]
                  /\ UNCHANGED out
          /\ IF part = "all" THEN mpc' = "close" /\ UNCHANGED <<log, exit>>
             ELSE Fatal(ErrWrite)
    /\ UNCHANGED <<now, Local, TZ, parseVars, dateVars, sanVars, carVars, flags, num, carrier, net,
                   parseCalls, mres, perr>>

\* out.Close() (parcel.go:149-151) and f.Close() (part_001:18)
CloseOut ==
    /\ mpc = "close"
    /\ \E ok \in BOOLEAN :
          IF ok THEN mpc' = "exited" /\ exit' = 0 /\ UNCHANGED log
          ELSE Fatal(ErrClose)
    /\ UNCHANGED <<now, Local, TZ, parseVars, dateVars, sanVars, carVars, flags, num, carrier, net,
                   parseCalls, mres, perr, fs, out>>

NextMain ==
    \/ CheckArgs \/ Sanitize \/ Validate \/ LoadTZ \/ NewRequest \/ Timeout
    \/ DoSend \/ HeadersArrive \/ TransportError \/ DoTimedOut \/ StartParse
    \/ ParseReturns \/ CloseAndCancel \/ CheckParseErr \/ Fill \/ OpenOutFile \/ WriteOut \/ CloseOut

SpecMain == InitMain /\ [][NextMain]_vars

-----------------------------------------------------------------------------
(* The document as the claims about Parse read it                          *)

\* a start tag after which Parse reads one more token at once
IsOpener(t) ==
    /\ t.type = "StartTag"
    /\ \/ t.name = "td"
       \/ t.name = "div" /\ Len(t.attr) > 0 /\ t.attr[1] = MarkerAttr

\* token j of d is the token read at once after an opener that the main
\* loop examined; the main loop never examines it
RECURSIVE ReadAsLookahead(_, _)
ReadAsLookahead(d, j) ==
    j > 1 /\ IsOpener(d[j - 1]) /\ ~ReadAsLookahead(d, j - 1)

\* a text-bearing table cell at j: a td start tag the main loop examines,
\* followed by a text token
IsCellAt(d, j) ==
    /\ j < Len(d) /\ d[j].type = "StartTag" /\ d[j].name = "td"
    /\ ~ReadAsLookahead(d, j) /\ d[j + 1].type = "Text"

\* a delivery status block at j: a marker div start tag the main loop
\* examines, followed by a text token
IsBlockAt(d, j) ==
    /\ j < Len(d) /\ d[j].type = "StartTag" /\ d[j].name = "div"
    /\ Len(d[j].attr) > 0 /\ d[j].attr[1] = MarkerAttr
    /\ ~ReadAsLookahead(d, j) /\ d[j + 1].type = "Text"

\* the texts of the text-bearing cells of d from token j on, in document order
RECURSIVE CellTextsFrom(_, _)
CellTextsFrom(d, j) ==
    IF j > Len(d) THEN <<>>
    ELSE (IF IsCellAt(d, j) THEN <<d[j + 1].text>> ELSE <<>>) \o CellTextsFrom(d, j + 1)

CellTextsOf(d) == CellTextsFrom(d, 1)

\* where the separator ": " stands in a text
SepAt(t) == {k \in 1..(Len(t) - 1) : t[k] = ":" /\ t[k + 1] = " "}
\* the text splits on ": " into exactly two parts
WellFormed(t) == Cardinality(SepAt(t)) = 1
LabelOf(t) == Take(t, (CHOOSE k \in SepAt(t) : TRUE) - 1)
DateTextOf(t) == Drop(t, (CHOOSE k \in SepAt(t) : TRUE) + 1)

\* the well-formed delivery status blocks of d
WellFormedBlocks(d) == {j \in 1..Len(d) : IsBlockAt(d, j) /\ WellFormed(d[j + 1].text)}
LastOf(S) == CHOOSE j \in S : \A h \in S : h <= j
FirstOf(S) == CHOOSE j \in S : \A h \in S : j <= h

\* what a well-formed block text says: the two delivery fields
FieldsOf(t) ==
    [Delivered |-> LabelOf(t) = DeliveredLabel,
     DeliveryDateTime |-> IF LabelOf(t) = DeliveredLabel THEN ParseDeliveryDate(DateTextOf(t))
                          ELSE ParseEstimatedDelivery(DateTextOf(t))]

-----------------------------------------------------------------------------
(* Claims about Parse, checked under SpecParse                             *)

\* C1: when the tokens end in a clean end-of-stream, Parse returns no error
\* and floor(N/4) updates, N the number of text-bearing table cells (td start
\* tags the main loop examines that are followed by text); update k is built
\* from the cells 4k-3 .. 4k as date, time, location and status, in document
\* order, and the N mod 4 cells at the end give no update.
C1_UpdatesFromCellsInFours ==
    (ppc = "returned" /\ termErr = "EOF") =>
        LET c == CellTextsOf(doc)
        IN /\ ret.err = "nil"
           /\ Len(ret.res.Updates) = Len(c) \div 4
           /\ \A k \in 1..(Len(c) \div 4) :
                 ret.res.Updates[k] =
                     [DateTime |-> ParseUpdateDateTime(c[4 * k - 3], c[4 * k - 2]),
                      Location |-> c[4 * k - 1], Status |-> c[4 * k]]

\* C1 witness: a document of nine cells was parsed to its end: two different
\* updates, one cell left over
C1_Witness ==
    /\ ppc = "returned" /\ termErr = "EOF"
    /\ Len(CellTextsOf(doc)) = 9
    /\ Len(ret.res.Updates) = 2
    /\ ret.res.Updates[1] # ret.res.Updates[2]

\* C3: when the tokenizer stops with an error other than io.EOF, Parse
\* returns that error and the zero Result, whatever it had collected.
C3_ErrorReturnsZeroResult ==
    (ppc = "returned" /\ termErr # "EOF") =>
        ret = [res |-> ZeroResult, err |-> termErr]

\* C3 witness: the error was met on the token read at once after a td start
\* tag, when an update and the delivery fields had been collected
C3_Witness ==
    /\ ppc = "returned" /\ termErr # "EOF"
    /\ last.kind = "break" /\ doc[last.at] = TdStart
    /\ res.Updates # <<>> /\ res.Delivered /\ res.DeliveryDateTime # <<>>

\* C7: after the pass over a delivery block whose text splits into exactly
\* two parts, Delivered tells whether the label is exactly "Delivered", and
\* DeliveryDateTime is ParseDeliveryDate of the date text if it is, and
\* ParseEstimatedDelivery of it if not.
C7_LabelDecidesInterpretation ==
    (last.kind = "block" /\ WellFormed(doc[last.at + 1].text)) =>
        /\ res.Delivered = FieldsOf(doc[last.at + 1].text).Delivered
        /\ res.DeliveryDateTime = FieldsOf(doc[last.at + 1].text).DeliveryDateTime

\* C7 witness: a block labelled "delivered" in lower case was passed after a
\* block labelled "Delivered": Delivered is false again
C7_Witness ==
    /\ last.kind = "block" /\ last.at = 3
    /\ doc[2].text = BlkDelivered /\ IsBlockAt(doc, 1)
    /\ doc[4].text = BlkLowerDelivered
    /\ ~res.Delivered /\ res.DeliveryDateTime = DateTextOf(BlkLowerDelivered)

\* C8: when the document was parsed to its end, Delivered and
\* DeliveryDateTime are those of the last well-formed delivery block.
C8_LastBlockWins ==
    (ppc = "returned" /\ termErr = "EOF" /\ WellFormedBlocks(doc) # {}) =>
        LET t == doc[LastOf(WellFormedBlocks(doc)) + 1].text
        IN /\ ret.res.Delivered = FieldsOf(t).Delivered
           /\ ret.res.DeliveryDateTime = FieldsOf(t).DeliveryDateTime

\* C8 witness: a document with a "Delivered" block and then an "Estimated
\* delivery" block was parsed to its end
C8_Witness ==
    /\ ppc = "returned" /\ termErr = "EOF"
    /\ Cardinality(WellFormedBlocks(doc)) = 2
    /\ doc[FirstOf(WellFormedBlocks(doc)) + 1].text = BlkDelivered
    /\ doc[LastOf(WellFormedBlocks(doc)) + 1].text = BlkEstimated
    /\ ~ret.res.Delivered

\* the pass about to be made is over a delivery block whose text does not
\* split into exactly two parts
MalformedBlockNext ==
    /\ ppc = "loop" /\ pos + 2 <= Len(doc)
    /\ IsDivWithAttr(doc[pos + 1]) /\ HasMarker(doc[pos + 1])
    /\ doc[pos + 2].type = "Text" /\ ~WellFormed(doc[pos + 2].text)

\* C9: the pass over a delivery block whose text does not split into exactly
\* two parts changes neither the delivery fields nor the updates, the cell
\* counter or the cells held; no error is raised and the scan goes on after
\* the text.
C9_MalformedBlockSkipped ==
    [][MalformedBlockNext =>
          /\ res' = res /\ tmp' = tmp /\ i' = i
          /\ ppc' = "loop" /\ pos' = pos + 2 /\ ret' = ret]_vars

\* C9 witness: a block with two separators was passed when an update, a
\* fifth cell and the delivery fields had been collected
C9_Witness ==
    /\ last.kind = "block" /\ pos = last.at + 1 /\ ppc = "loop"
    /\ Cardinality(SepAt(doc[pos].text)) = 2
    /\ Len(res.Updates) = 1 /\ i = 5 /\ res.Delivered /\ res.DeliveryDateTime # <<>>

\* C13: the Updates of every result Parse returns has no more than 5
\* elements, for every document.
C13_AtMostFiveUpdates ==
    ppc = "returned" => Len(ret.res.Updates) <= UpdatesCap

\* C13 as amended: Parse puts no bound on Updates: at a clean end-of-stream
\* it has one element for every four text-bearing cells of the document, so
\* it has no more than 5 elements exactly when the document has fewer than
\* 24 such cells; after an error it is empty.
C13_UpdatesBoundedByDocument ==
    ppc = "returned" =>
        LET n == Len(CellTextsOf(doc))
        IN /\ Len(ret.res.Updates) = IF termErr = "EOF" THEN n \div 4 ELSE 0
           /\ termErr = "EOF" =>
                 ((Len(ret.res.Updates) <= UpdatesCap) = (n < 4 * (UpdatesCap + 1)))

\* C13 witness: a table of six whole rows was parsed to its end and gave
\* six updates
C13_Witness ==
    /\ ppc = "returned" /\ termErr = "EOF"
    /\ Len(CellTextsOf(doc)) >= 4 * (UpdatesCap + 1)
    /\ Len(ret.res.Updates) = UpdatesCap + 1

\* C14: every Update of a Result that Parse returns, and of the one it is
\* building, has a Status, a Location and a DateTime that are not empty.
C14_UpdateFieldsNotEmpty ==
    /\ \A k \in 1..Len(res.Updates) :
          /\ res.Updates[k].Status # <<>> /\ res.Updates[k].Location # <<>>
          /\ res.Updates[k].DateTime # <<>>
    /\ ppc = "returned" =>
          \A k \in 1..Len(ret.res.Updates) :
             /\ ret.res.Updates[k].Status # <<>> /\ ret.res.Updates[k].Location # <<>>
             /\ ret.res.Updates[k].DateTime # <<>>

\* C14 witness: Parse returned two updates, the first with the raw text of
\* cells no layout reads as its DateTime, the second with a timestamp
C14_Witness ==
    /\ ppc = "returned" /\ Len(ret.res.Updates) = 2
    /\ ret.res.Updates[1].DateTime = Txt251PM \o CommaSp \o TxtSep19
    /\ ret.res.Updates[2].DateTime = ParseUpdateDateTime(TxtSep19, Txt251PM)
    /\ ret.res.Updates[2].DateTime # TxtSep19 \o CommaSp \o Txt251PM

\* a div start tag that has the marker class among its attributes, at any
\* place
CarriesMarker(t) ==
    /\ t.type = "StartTag" /\ t.name = "div"
    /\ \E k \in 1..Len(t.attr) : t.attr[k] = MarkerAttr

\* the pass about to be made is over a div start tag that carries the
\* marker class and is followed by text
MarkedDivNext ==
    /\ ppc = "loop" /\ pos + 2 <= Len(doc)
    /\ CarriesMarker(doc[pos + 1]) /\ doc[pos + 2].type = "Text"

\* C18: the pass over a div start tag that carries class="b_focusTextSmall",
\* wherever among its attributes, and is followed by text treats the two as
\* a delivery status block: when the text splits into label and date, the
\* pass sets Delivered and DeliveryDateTime from it.
C18_MarkerAtAnyAttribute ==
    [][(MarkedDivNext /\ WellFormed(doc[pos + 2].text)) =>
          /\ res'.Delivered = FieldsOf(doc[pos + 2].text).Delivered
          /\ res'.DeliveryDateTime = FieldsOf(doc[pos + 2].text).DeliveryDateTime]_vars

\* the pass about to be made is over a td or marker div start tag that is
\* directly followed by another
OpenerAfterOpenerNext ==
    /\ ppc = "loop" /\ pos + 2 <= Len(doc)
    /\ IsOpener(doc[pos + 1]) /\ IsOpener(doc[pos + 2])

\* the pass about to be made is over a td start tag followed by text
CellNext ==
    /\ ppc = "loop" /\ pos + 2 <= Len(doc)
    /\ IsTd(doc[pos + 1]) /\ doc[pos + 2].type = "Text"

\* C19: the token read at once after a td or marker div start tag is
\* consumed and never examined by the main loop: the pass over a td or
\* marker div start tag that is directly followed by another takes both
\* tokens and changes nothing that Parse collects, so the second gives no
\* cell and no delivery block even when text follows it; and the count of
\* cells grows, by one, exactly in a pass of the main loop over a td start
\* tag whose next token is text.
C19_LookaheadNeverExamined ==
    /\ [](last.at > 0 => ~ReadAsLookahead(doc, last.at))
    /\ [][OpenerAfterOpenerNext =>
             pos' = pos + 2 /\ res' = res /\ tmp' = tmp /\ i' = i]_vars
    /\ [][(i' # i) <=> (CellNext /\ i' = i + 1)]_vars

\* C19 witness: the document <td><td>Sep 19 was parsed to its end: the
\* second td was read after the first and its text gave no cell
C19_Witness ==
    /\ ppc = "returned" /\ termErr = "EOF"
    /\ doc = <<TdStart, TdStart, TextTok(TxtSep19)>>
    /\ i = 0 /\ tmp = ZeroTmp /\ last = [at |-> 4, kind |-> "end"]

\* the document is a table of whole rows of four cells and nothing else,
\* each cell a td start tag followed by its text or, when it has no text,
\* by its end tag
IsTableOfRows(d) ==
    /\ Len(d) > 0 /\ Len(d) % 8 = 0
    /\ \A j \in 1..Len(d) :
          IF j % 2 = 1 THEN d[j] = TdStart ELSE d[j].type = "Text" \/ d[j] = TdEnd

\* the text of cell c (1..4) of row r of such a table; empty for <td></td>
CellOfRow(d, r, c) ==
    LET t == d[2 * (4 * (r - 1) + c)] IN IF t.type = "Text" THEN t.text ELSE <<>>

\* the rows of such a table whose time cell is without text
RowsWithoutTime(d) == {r \in 1..(Len(d) \div 8) : CellOfRow(d, r, 2) = <<>>}

\* in such a table no cell but a time cell is without text
OnlyTimesEmpty(d) ==
    \A r \in 1..(Len(d) \div 8) : \A c \in {1, 3, 4} : CellOfRow(d, r, c) # <<>>

\* C17: when the time cell of a row is without text, the update of that row
\* has the timestamp of its date with the time "12:00 AM", and the location
\* and the status of the row.
C17_EmptyTimeCellIsMidnight ==
    (ppc = "returned" /\ termErr = "EOF" /\ IsTableOfRows(doc) /\ OnlyTimesEmpty(doc)) =>
        \A r \in RowsWithoutTime(doc) :
            /\ r <= Len(ret.res.Updates)
            /\ ret.res.Updates[r] =
                   [DateTime |-> ParseUpdateDateTime(CellOfRow(doc, r, 1), Midnight),
                    Location |-> CellOfRow(doc, r, 3), Status |-> CellOfRow(doc, r, 4)]

-----------------------------------------------------------------------------
(* Claims about the date functions, checked under SpecDate                 *)

\* the call was of a text without year that the primary layout reads: a
\* month and day that exist in the current year, and a time of day (or, for
\* an update, no time text at all)
YearlessCall ==
    /\ dDate.day <= daysIn(dDate.month, now.year)
    /\ \/ dfn = "ParseUpdateDateTime" /\ dDate.kind = "md" /\ dTime.kind \in {"hm", "empty"}
       \/ dfn = "ParseDeliveryDate" /\ dDate.kind = "dlv"

\* what the text of the call says, the year apart
SaidHour == IF dfn = "ParseUpdateDateTime" THEN dTime.hour ELSE dDate.hour
SaidMin == IF dfn = "ParseUpdateDateTime" THEN dTime.min ELSE dDate.min

\* the number an RFC 3339 text holds in its characters a..b
RECURSIVE NumberAt(_, _, _)
NumberAt(s, a, b) ==
    IF b < a THEN 0 ELSE 10 * NumberAt(s, a, b - 1) + DigitVal(s[b])

\* the wall clock reading an RFC 3339 text "2006-01-02T15:04:05..." holds
Reading(s) ==
    [year |-> NumberAt(s, 1, 4), month |-> NumberAt(s, 6, 7), day |-> NumberAt(s, 9, 10),
     hour |-> NumberAt(s, 12, 13), min |-> NumberAt(s, 15, 16), sec |-> NumberAt(s, 18, 19)]

\* the days of the months before mo in the year y, and the day
RECURSIVE DayIn(_, _, _)
DayIn(y, mo, d) == IF mo = 1 THEN d - 1 ELSE daysIn(mo - 1, y) + DayIn(y, mo - 1, d)

\* days from the first day of the year 2020 to the first day of the year y
RECURSIVE YearStart(_)
YearStart(y) == IF y <= 2020 THEN 0
                ELSE (IF isLeap(y - 1) THEN 366 ELSE 365) + YearStart(y - 1)

\* the instant of a wall clock reading r in the zone of offset off minutes,
\* in seconds from 2020-01-01T00:00:00Z
InstantOf(r, off) ==
    ((((YearStart(r.year) + DayIn(r.year, r.month, r.day)) * 24 + r.hour) * 60)
        + r.min - off) * 60 + r.sec

\* the days on which daylight saving time begins (in March) and ends (in
\* November by the rule "US", in October by the rule "EU"), by the calendar
DSTDays(rule, year) ==
    IF rule = "US"
    THEN CASE year = 2022 -> <<13, 6>> [] year = 2023 -> <<12, 5>> [] year = 2024 -> <<10, 3>>
           [] year = 2025 -> <<9, 2>> [] year = 2026 -> <<8, 1>>
    ELSE CASE year = 2022 -> <<27, 30>> [] year = 2023 -> <<26, 29>> [] year = 2024 -> <<31, 27>>
           [] year = 2025 -> <<30, 26>> [] year = 2026 -> <<29, 25>>

\* the offset of the zone z at a wall clock reading of the hour h of a day
\* that the zone has: once, or twice in the hour after its clocks go back;
\* of the two, time.Date takes daylight time in New York and standard time
\* in Paris, which is standard time from 02:00 of that day in both
OffsetOn(z, year, mo, d, h) ==
    IF z.rule = "none" THEN z.std
    ELSE LET endMo == IF z.rule = "US" THEN 11 ELSE 10
             days == DSTDays(z.rule, year)
             begun == mo > 3 \/ (mo = 3 /\ (d > days[1] \/ (d = days[1] /\ h >= 3)))
             ended == mo > endMo \/ (mo = endMo /\ (d > days[2] \/ (d = days[2] /\ h >= 2)))
         IN IF begun /\ ~ended THEN z.dst ELSE z.std

\* the zone z has no reading r: r is in the hour from 02:00 of the day its
\* clocks go forward
Skipped(z, r) ==
    /\ z.rule # "none" /\ r.month = 3 /\ r.hour = 2
    /\ r.day = DSTDays(z.rule, r.year)[1]

\* the time that the reading r is in z, with its offset.  For a reading the
\* zone skips, the time an hour off that time.Date gives: an hour earlier,
\* in standard time, west of UTC and an hour later, in daylight time, east
Resolved(z, r) ==
    IF Skipped(z, r)
    THEN IF z.std < 0 THEN [r EXCEPT !.hour = 1, !.off = z.std]
         ELSE [r EXCEPT !.hour = 3, !.off = z.dst]
    ELSE [r EXCEPT !.off = OffsetOn(z, r.year, r.month, r.day, r.hour)]

\* the instant of a time, in seconds from 2020-01-01T00:00:00Z
Instant(t) ==
    InstantOf([year |-> t.year, month |-> t.month, day |-> t.day, hour |-> t.hour,
               min |-> t.min, sec |-> 0], t.off)

\* the instant of now, in seconds from 2020-01-01T00:00:00Z
InstantNow == InstantOf(now, OffsetOn(Local, now.year, now.month, now.day, now.hour))

\* the candidate: the text taken in the current year, in TZ
Candidate ==
    Resolved(TZ, [year |-> now.year, month |-> dDate.month, day |-> dDate.day,
                  hour |-> SaidHour, min |-> SaidMin, off |-> 0])

CandidateAfterNow == Instant(Candidate) > InstantNow

\* the text names a time of the hour that TZ skips in the current year or
\* in the year before
SaidSkipped ==
    \E y \in {now.year - 1, now.year} :
        Skipped(TZ, [year |-> y, month |-> dDate.month, day |-> dDate.day, hour |-> SaidHour])

\* C6: a date text without year that the primary layout reads gives the
\* timestamp with the month, day and time of day of the text, in the current
\* year when that is not after now and in the year before when it is, for
\* every calendar date, Feb 29 included.
C6_YearInferenceKeepsMonthAndDay ==
    (dpc = "done" /\ YearlessCall) =>
        LET y == IF CandidateAfterNow THEN now.year - 1 ELSE now.year
        IN dOut = FormatRFC3339(
                      [year |-> y, month |-> dDate.month, day |-> dDate.day,
                       hour |-> SaidHour, min |-> SaidMin,
                       off |-> OffsetOn(TZ, y, dDate.month, dDate.day, SaidHour)])

\* the reading a year before the time t: the same month and day, and Mar 1
\* for Feb 29, as the year before a leap year has no Feb 29
YearBack(t) ==
    IF t.month = 2 /\ t.day = 29 THEN [t EXCEPT !.year = @ - 1, !.month = 3, !.day = 1]
    ELSE [t EXCEPT !.year = @ - 1]

\* the timestamp a call of a text without year gives: the candidate, or,
\* when that is after now, the time a year before it
InferredTime ==
    IF CandidateAfterNow THEN Resolved(TZ, YearBack(Candidate)) ELSE Candidate

\* C6 as amended: a date text without year that the primary layout reads
\* gives the timestamp with the month, day and time of day of the text in
\* the current year when that is not after now, and otherwise that time
\* moved back one year: the same month and day of the year before, except
\* that Feb 29 becomes Mar 1 of the year before.  The time of day is that of
\* the text except for a time in the hour that TZ skips on the day its
\* clocks go forward, which comes out an hour off, as time.Date gives it,
\* at either of the two steps.
C6_YearInferenceAmended ==
    (dpc = "done" /\ YearlessCall) =>
        /\ dOut = FormatRFC3339(InferredTime)
        /\ ~SaidSkipped =>
              /\ Reading(dOut).hour = SaidHour /\ Reading(dOut).min = SaidMin
              /\ Reading(dOut).year = (IF CandidateAfterNow THEN now.year - 1 ELSE now.year)
              /\ <<dDate.month, dDate.day>> # <<2, 29>> =>
                    <<Reading(dOut).month, Reading(dOut).day>> = <<dDate.month, dDate.day>>

\* C6 witness: "Feb 29" was read in a leap year before its Feb 29
C6_Witness ==
    /\ dpc = "done" /\ YearlessCall /\ CandidateAfterNow
    /\ dDate.month = 2 /\ dDate.day = 29 /\ dfn = "ParseDeliveryDate"
    /\ SubSeq(dOut, 1, 10) = <<"2", "0", "2", "3", "-", "0", "3", "-", "0", "1">>

\* the offset in minutes an RFC 3339 text ends with: "Z" or "+hh:mm" or
\* "-hh:mm"
OffsetIn(s) ==
    IF s[20] = "Z" THEN 0
    ELSE (IF s[20] = "-" THEN -1 ELSE 1) * (60 * NumberAt(s, 21, 22) + NumberAt(s, 24, 25))

\* the instant at which the year y begins in TZ
YearBegins(y) ==
    InstantOf([year |-> y, month |-> 1, day |-> 1, hour |-> 0, min |-> 0, sec |-> 0],
              OffsetOn(TZ, y, 1, 1, 0))

\* the year it is now in the zone TZ
YearInTZ ==
    CHOOSE y \in (now.year - 1)..(now.year + 1) :
        YearBegins(y) <= InstantNow /\ InstantNow < YearBegins(y + 1)

\* C15: a timestamp that ParseUpdateDateTime or ParseDeliveryDate derives
\* from a date text without year is not later than now, and its year is the
\* current one or the one before, by the zone of the system and by TZ alike.
C15_InferredTimeNotAfterNow ==
    (dpc = "done" /\ YearlessCall) =>
        /\ InstantOf(Reading(dOut), OffsetIn(dOut)) <= InstantNow
        /\ Reading(dOut).year \in {now.year - 1, now.year}
        /\ Reading(dOut).year \in {YearInTZ - 1, YearInTZ}

\* the call was ParseEstimatedDelivery of a text in its layout that names a
\* day of the calendar
EstimatedCall ==
    /\ dfn = "ParseEstimatedDelivery" /\ dDate.kind = "est"
    /\ dDate.day <= daysIn(dDate.month, dDate.year)

\* an offset of the zones of the model as RFC 3339 writes it
OffsetTextOf(off) ==
    CASE off = 0 -> <<"Z">>
      [] off = -240 -> <<"-", "0", "4", ":", "0", "0">>
      [] off = -300 -> <<"-", "0", "5", ":", "0", "0">>
      [] off = 330 -> <<"+", "0", "5", ":", "3", "0">>
      [] off = 60 -> <<"+", "0", "1", ":", "0", "0">>
      [] off = 120 -> <<"+", "0", "2", ":", "0", "0">>

\* the offset of TZ at midnight of the day the text names, written so
OffsetText == OffsetTextOf(OffsetOn(TZ, dDate.year, dDate.month, dDate.day, 0))

\* C16: ParseEstimatedDelivery infers no year: a text "<Weekday>, <Month>
\* <Day>, <Year>" gives midnight of that year, month and day in TZ (with the
\* offset TZ has on that day), whatever the clock reads, for a date after
\* now and for a date before now alike.
C16_EstimatedDeliveryIsThatMidnight ==
    (dpc = "done" /\ EstimatedCall) =>
        /\ Len(dOut) = 19 + Len(OffsetText)
        /\ Reading(dOut) = [year |-> dDate.year, month |-> dDate.month, day |-> dDate.day,
                            hour |-> 0, min |-> 0, sec |-> 0]
        /\ SubSeq(dOut, 20, Len(dOut)) = OffsetText
        /\ <<dOut[5], dOut[8], dOut[11], dOut[14], dOut[17]>> = <<"-", "-", "T", ":", ":">>

\* C16 witness: "Monday, January 2, 2025" was read in the zone of New York
\* while the clock stood in September 2023, in the zone's summer time and
\* more than a year before that date
C16_Witness ==
    /\ dpc = "done" /\ EstimatedCall /\ now.year = 2023 /\ now.month = 9 /\ TZ = NewYork
    /\ dDate.text = longDayNames[2] \o CommaSp \o longMonthNames[1]
                    \o <<" ", "2", ",", " ", "2", "0", "2", "5">>
    /\ dOut = <<"2", "0", "2", "5", "-", "0", "1", "-", "0", "2", "T", "0", "0", ":",
                "0", "0", ":", "0", "0", "-", "0", "5", ":", "0", "0">>

\* no layout of the function called reads the text
NoLayoutReads ==
    \/ dDate.kind = "junk"
    \/ dfn = "ParseUpdateDateTime" /\ dTime.kind = "junk"

\* C10: when no layout reads the text, ParseUpdateDateTime returns the date
\* text and the time text as given, joined by ", " (also for an empty time
\* text), and ParseDeliveryDate and ParseEstimatedDelivery return their text.
C10_FallbackIsRawText ==
    (dpc = "done" /\ NoLayoutReads) =>
        dOut = IF dfn = "ParseUpdateDateTime" THEN dDate.text \o CommaSp \o dTime.text
               ELSE dDate.text

\* C10 as amended: when no layout reads the text, ParseUpdateDateTime
\* returns the date text and the time text joined by ", ", an empty time
\* text being replaced by "12:00 AM" first; ParseDeliveryDate and
\* ParseEstimatedDelivery return their text unchanged.
C10_FallbackAmended ==
    (dpc = "done" /\ NoLayoutReads) =>
        dOut = IF dfn = "ParseUpdateDateTime"
               THEN dDate.text \o CommaSp
                    \o (IF dTime.text = <<>> THEN Midnight ELSE dTime.text)
               ELSE dDate.text

\* C10 witness: ParseUpdateDateTime was called with a date text no layout
\* reads and an empty time text
C10_Witness ==
    /\ dpc = "done" /\ dfn = "ParseUpdateDateTime"
    /\ dDate.kind = "junk" /\ dTime.text = <<>>
    /\ dOut = dDate.text \o CommaSp \o Midnight

-----------------------------------------------------------------------------
(* Claims about SanitizeInput, checked under SpecSanitize                  *)

\* C2: SanitizeInput returns its input with every character outside
\* [0-9a-zA-Z] removed, and rejects it with ErrNum exactly when that
\* stripped text is shorter than 7 or longer than 40 characters.
C2_RejectsByStrippedLength ==
    spc = "done" =>
        LET kept == SelectSeq(sIn, IsAlnum)
            outside == Len(kept) < MinNumLen \/ Len(kept) > MaxNumLen
        IN /\ (sOut.err = "ErrNum") = outside
           /\ sOut.err = "nil" => (sOut.s = kept /\ Len(sOut.s) \in MinNumLen..MaxNumLen)

-----------------------------------------------------------------------------
(* Claims about main, checked under SpecMain                               *)

\* the output target is as it was before the run: nothing on standard
\* output, and the file neither made, emptied nor written
OutputUntouched ==
    /\ out = <<>>
    /\ fs.exists = fs.pre.exists /\ fs.content = fs.pre.content

\* C4: on every fatal path of main nothing is written to the output target,
\* and the output file is not created, truncated or left partially written.
C4_FatalPathLeavesOutputUntouched == exit = 1 => OutputUntouched

\* C5: when the deadline of the context passes at any point of the fetch,
\* before the headers or while the body is read, the fetch reports the error
\* and Parse is never called in that run.
C5_TimeoutMeansParseNeverCalled ==
    (exit # -1 /\ net.firedAt # "never") => (exit = 1 /\ parseCalls = 0)

\* main logged the error of the deadline
DeadlineReported == \E k \in 1..Len(log) : log[k] = ErrDeadline

\* C5 as amended: a deadline that has passed before Do is called always
\* makes Do report the error, main exit with it, and Parse is never called.
\* A deadline that passes while Do waits does the same unless the response
\* or a network error arrived at that moment, and Parse is never called in a
\* run in which Do reports the deadline.  A deadline that a read of the body
\* meets makes Parse (which is called once) return the error with the zero
\* Result, and main exit with it.  Whoever reports it, the error is the only
\* thing logged and nothing is output.  A deadline that passes after Parse
\* has returned is never reported.
C5_TimeoutAmended ==
    /\ net.firedAt = "do" =>
          /\ parseCalls = 0 /\ perr = "nil" /\ mpc \in {"do", "waiting", "exited"}
          /\ exit # -1 => (exit = 1 /\ log = <<ErrDeadline>> /\ OutputUntouched)
    /\ (mpc = "waiting" /\ net.ctx = "expired") => parseCalls = 0
    /\ (exit # -1 /\ DeadlineReported) =>
          /\ exit = 1 /\ log = <<ErrDeadline>> /\ OutputUntouched /\ mres = ZeroResult
          /\ IF perr = "nil"
             THEN parseCalls = 0 /\ net.firedAt \in {"do", "waiting"}
             ELSE /\ perr = ErrDeadline /\ parseCalls = 1
                  /\ net.firedAt \in {"waiting", "parse", "parsing"}
    /\ net.firedAt = "closing" => ~DeadlineReported

\* C5 witness: the deadline passed while Parse was reading a body with
\* updates in it, and main has exited
C5_Witness ==
    /\ exit = 1 /\ net.firedAt = "parsing" /\ parseCalls = 1
    /\ Len(net.body) > 8 /\ log = <<ErrDeadline>>

-----------------------------------------------------------------------------
(* Claims about ValidateCarrier, checked under SpecCarrier                 *)

\* a letter with its case folded away (Unicode simple folding: the long s
\* folds to s)
foldCase(c) ==
    IF c = LongS THEN "s" ELSE IF c = WideUpper THEN WideChar ELSE ToLowerChar(c)

\* two texts are equal ignoring letter case
EqualFold(a, b) ==
    Len(a) = Len(b) /\ \A k \in 1..Len(a) : foldCase(a[k]) = foldCase(b[k])

\* C11: ValidateCarrier succeeds, and returns the upper-case code, exactly
\* when its text equals one of DHL, FEDEX, UPS, USPS ignoring letter case;
\* every other text (the empty one and one with spaces around a code
\* included) fails with ErrCarrier and the empty Carrier.
C11_CarrierMatchesIgnoringCase ==
    cpc = "done" =>
        LET hits == {w \in {DHL, FEDEX, UPS, USPS} : EqualFold(cIn, w)}
        IN IF hits # {} THEN cOut.err = "nil" /\ cOut.c \in hits
           ELSE cOut = [c |-> <<>>, err |-> "ErrCarrier"]

\* C11 witness: ValidateCarrier was called with "fEdeX" and returned FEDEX
C11_Witness ==
    /\ cpc = "done" /\ cIn = <<"f", "E", "d", "e", "X">>
    /\ cOut = [c |-> FEDEX, err |-> "nil"]

\* the last message main logged
LastLog == IF log = <<>> THEN "" ELSE log[Len(log)]

\* the three checks of the command line passed
Validated ==
    /\ flags.n # <<>> /\ flags.c # <<>>
    /\ SanitizeInput(flags.n).err = "nil" /\ num = SanitizeInput(flags.n).s
    /\ ValidateCarrier(flags.c).err = "nil" /\ carrier = ValidateCarrier(flags.c).c
    /\ flags.tz # "" => (LoadLocation(flags.tz).ok /\ TZ = LoadLocation(flags.tz).tz)

\* C12: the stages of main happen in the order validate, fetch, parse,
\* output, and a failure stops the later ones: a request is built only
\* after the tracking number, the carrier and the time zone were accepted,
\* Parse is called only after a request was built and sent, and something is
\* output only after Parse returned a result; a run that fails on the
\* arguments, the tracking number, the carrier or the time zone has built no
\* request, and one that fails on building the request or in Do has not
\* called Parse; neither has output anything.
C12_StagesInOrder ==
  /\ [][(mpc = "waiting" /\ exit' = 1) => (parseCalls' = 0 /\ OutputUntouched')]_vars
  /\ [](
    /\ net.ctx # "none" => Validated
    /\ parseCalls > 0 => (net.ctx # "none" /\ net.url = requestURL(num, carrier))
    /\ ~OutputUntouched =>
          (parseCalls = 1 /\ mres.TrackingNum = num /\ mres.Carrier = carrier)
    /\ (exit = 1 /\ LastLog \in {"usage", "ErrNum", "ErrCarrier", ErrZone}) =>
          (net.ctx = "none" /\ parseCalls = 0 /\ OutputUntouched)
    /\ (exit = 1 /\ LastLog \in {ErrRequest, ErrTransport}) =>
          (parseCalls = 0 /\ OutputUntouched)
    /\ (exit = 1 /\ parseCalls = 1 /\ mres.TrackingNum = <<>>) => OutputUntouched)

\* C12 witness: a run with valid arguments whose request failed in Do has
\* exited without calling Parse
C12_Witness ==
    /\ exit = 1 /\ LastLog = ErrTransport /\ Validated
    /\ net.url # <<>> /\ parseCalls = 0 /\ OutputUntouched

=============================================================================
